---- MODULE Spec2Model ----
(***************************************************************************)
(* Cost Analysis & Alerting Engine (Cloud-Cost-Optimization-Dashboard).    *)
(*                                                                         *)
(* The Alert Manager (src/lambda/alerting/handler.py process_alerts and    *)
(* its callees, src/lambda/alerting/notification_utils.py acknowledge /    *)
(* resolve) is modelled as a state machine over the alerts table and the   *)
(* notification topics; every repository or dispatcher call is one step,   *)
(* so that two invocations interleave at the granularity of those calls.   *)
(* The evaluators and analysers are pure functions of the cost records and *)
(* the configuration; they are operators, applied by the actions of their  *)
(* own specifications to inputs drawn in Init.                             *)
(*                                                                         *)
(* Money is an integer number of currency units.  Time is an integer       *)
(* number of clock ticks; one invocation (Lambda timeout 2 minutes,        *)
(* lambda_stack.py) completes within a tick.                               *)
(***************************************************************************)
EXTENDS Integers, Sequences, FiniteSets, TLC

VARIABLES
    now,            \* datetime.utcnow(), in ticks
    created,        \* number of create_alert calls so far (sub-tick part of timestamps)
    alerts_table,   \* the rows of the alerts table (key: alert_id, timestamp)
    published,      \* the messages sns.publish accepted (one per alert timestamp)
    run,            \* per invocation: position in process_alerts and its locals
    faulted,        \* some repository or dispatcher call has failed so far
    fn,             \* evaluator / analyser applied ("" before the call)
    args,           \* its inputs
    ret,            \* its result
    cost_data_table,        \* the stored cost records (key: service_id, timestamp)
    cost_analysis_table,    \* the stored analysis results (key: analysis_type, period)
    recommendations_table   \* the stored recommendations (key: resource_id, recommendation_type)

vars == <<now, created, alerts_table, published, run, faulted, fn, args, ret,
          cost_data_table, cost_analysis_table, recommendations_table>>

amVars == <<now, created, alerts_table, published, run, faulted>>
fnVars == <<fn, args, ret>>
dpVars == <<cost_data_table, cost_analysis_table, recommendations_table>>

----------------------------------------------------------------------------
\* Bounds of the model

MaxTime == 2            \* the clock stops here
MaxCreated == 3         \* create_alert calls over a behaviour
MaxCandidates == 2      \* candidates handed to one process_alerts call
PageLimit == 1          \* rows one scan call reads before it returns a page
Hour == 2               \* timedelta(hours=1), in ticks

Invocations == {1, 2}

None == [t |-> "NoneType"]

----------------------------------------------------------------------------
\* Small helpers

RECURSIVE SumSeq(_)
SumSeq(s) == IF s = <<>> THEN 0 ELSE Head(s) + SumSeq(Tail(s))

Abs(x) == IF x < 0 THEN -x ELSE x

SeqsUpTo(S, n) == UNION {[1..k -> S] : k \in 0..n}

----------------------------------------------------------------------------
\* Alert Manager: candidates

\* what an evaluator hands to create_alert
Kinds ==
    { [alert_type |-> "threshold_breach", severity |-> "warning",
       service |-> "Overall", region |-> "All", current_cost |-> 150, threshold |-> 100],
      [alert_type |-> "anomaly_detection", severity |-> "warning",
       service |-> "EC2", region |-> "All", current_cost |-> 300, threshold |-> 120] }

\* service.lower().replace(' ', '_')
LowerService(s) ==
    CASE s = "Overall" -> "overall"
      [] s = "EC2" -> "ec2"
      [] s = "S3" -> "s3"
      [] OTHER -> s

\* create_alert: the record built from an evaluator's finding at time t; n is
\* the sub-tick part that makes two timestamps of one tick differ
create_alert(k, t, n) ==
    [ alert_id |-> <<k.alert_type, LowerService(k.service), k.region, t>>,
      timestamp |-> <<t, n>>,
      alert_type |-> k.alert_type,
      severity |-> k.severity,
      service |-> k.service,
      region |-> k.region,
      current_cost |-> k.current_cost,
      threshold |-> k.threshold,
      status |-> "active",
      acknowledged |-> FALSE,
      resolved |-> FALSE,
      notification_sent |-> FALSE,
      notification_channels |-> <<>> ]

DedupKey(a) == <<a.alert_type, a.service, a.region>>

----------------------------------------------------------------------------
\* Alert Manager: repository and dispatcher calls

\* alerts_table.scan(...) without ExclusiveStartKey: the one page the call
\* returns holds the rows read before the page limit, any PageLimit of them
\* when the table holds more
ScanFirstPage(T) ==
    IF Cardinality(T) <= PageLimit THEN {T}
    ELSE {P \in SUBSET T : Cardinality(P) = PageLimit}

\* the FilterExpression of is_duplicate_alert, evaluated at time t
DuplicateFilter(r, alert, t) ==
    /\ r.alert_type = alert.alert_type
    /\ r.service = alert.service
    /\ r.region = alert.region
    /\ r.timestamp[1] > t - Hour
    /\ r.status = "active"

\* is_duplicate_alert on the page the scan returned
is_duplicate_alert(alert, page, t) ==
    Cardinality({r \in page : DuplicateFilter(r, alert, t)}) > 0

put_item_notified(T, alert) ==
    {r \in T : ~(r.alert_id = alert.alert_id /\ r.timestamp = alert.timestamp)}
        \cup {[alert EXCEPT !.notification_sent = TRUE]}

\* alerts_table.put_item(Item=alert): replaces a row of the same key
put_item(T, alert) ==
    {r \in T : ~(r.alert_id = alert.alert_id /\ r.timestamp = alert.timestamp)}
        \cup {alert}

get_topic_for_alert_budget_default(alert) ==
    IF alert.alert_type \in {"threshold_breach", "service_threshold_breach"}
    THEN "ALERTS_TOPIC_ARN"
    ELSE IF alert.alert_type = "anomaly_detection" THEN "ANOMALIES_TOPIC_ARN"
    ELSE IF alert.alert_type = "budget_exceeded" THEN "BUDGET_TOPIC_ARN"
    ELSE "ALERTS_TOPIC_ARN"

\* get_topic_for_alert
get_topic_for_alert(alert) ==
    IF alert.alert_type \in {"threshold_breach", "service_threshold_breach"}
    THEN "ALERTS_TOPIC_ARN"
    ELSE IF alert.alert_type = "anomaly_detection" THEN "ANOMALIES_TOPIC_ARN"
    ELSE IF alert.alert_type \in {"budget_exceeded", "budget_warning"}
    THEN "BUDGET_TOPIC_ARN"
    ELSE "ALERTS_TOPIC_ARN"

\* the update_item of send_alert_notification (Key: alert_id and timestamp)
MarkNotificationSent(T, alert) ==
    { IF r.alert_id = alert.alert_id /\ r.timestamp = alert.timestamp
      THEN [r EXCEPT !.notification_sent = TRUE,
                     !.notification_channels = <<"email", "slack">>]
      ELSE r : r \in T }

\* the SET clause of acknowledge_alert (acknowledged_by and acknowledged_at,
\* which nothing reads, are left out of the rows)
AckUpdate(r) ==
    [r EXCEPT !.acknowledged = TRUE, !.status = "acknowledged"]

\* the SET clause of resolve_alert (resolved_by, resolved_at and
\* resolution_notes are left out of the rows)
ResolveUpdate(r) ==
    [r EXCEPT !.resolved = TRUE, !.status = "resolved"]

----------------------------------------------------------------------------
\* Alert Manager: the loop of process_alerts

IdleRun == [pc |-> "idle", alerts |-> <<>>, idx |-> 1, processed_count |-> 0, log |-> <<>>]

\* the for statement: the next candidate, or the return
NextCandidate(r, outcome, counted) ==
    LET r2 == [r EXCEPT !.log = Append(@, outcome),
                        !.processed_count = @ + counted,
                        !.idx = @ + 1]
    IN  [r2 EXCEPT !.pc = IF r2.idx > Len(r2.alerts) THEN "done" ELSE "dedup"]

\* else branch: the candidate is skipped
OnDuplicate(r) == NextCandidate(r, "duplicate", 0)

\* store_alert raised; the except clause of the loop body logs it
OnStoreErrorAbort(r) == [NextCandidate(r, "store_failed", 0) EXCEPT !.pc = "done"]
OnStoreError(r) == NextCandidate(r, "store_failed", 0)

\* sns.publish raised inside send_alert_notification, which swallows it
OnPublishError(r) == NextCandidate(r, "publish_failed", 1)

\* send_alert_notification returned
OnNotified(r, outcome) == NextCandidate(r, outcome, 1)

Current(i) == run[i].alerts[run[i].idx]

TypeOK ==
    /\ now \in 0..MaxTime
    /\ created \in 0..MaxCreated
    /\ faulted \in BOOLEAN
    /\ \A i \in Invocations :
          run[i].pc \in {"idle", "dedup", "store", "publish", "update", "done"}

InitAlertManager ==
    /\ now = 0
    /\ created = 0
    /\ alerts_table = {}
    /\ published = {}
    /\ run = [i \in Invocations |-> IdleRun]
    /\ faulted = FALSE

InitNoCall ==
    /\ fn = ""
    /\ args = None
    /\ ret = None

InitNoData ==
    /\ cost_data_table = {}
    /\ cost_analysis_table = {}
    /\ recommendations_table = {}

Init == InitAlertManager /\ InitNoCall /\ InitNoData

\* time passes between invocations
Tick ==
    /\ now < MaxTime
    /\ \A i \in Invocations : run[i].pc = "idle"
    /\ now' = now + 1
    /\ UNCHANGED <<created, alerts_table, published, run, faulted, fnVars, dpVars>>

\* lambda_handler hands the evaluators' candidates to process_alerts
StartRun(i) ==
    /\ run[i].pc = "idle"
    /\ \E ks \in SeqsUpTo(Kinds, MaxCandidates) :
          /\ created + Len(ks) <= MaxCreated
          /\ created' = created + Len(ks)
          /\ run' = [run EXCEPT ![i] =
                [IdleRun EXCEPT
                    !.alerts = [j \in 1..Len(ks) |-> create_alert(ks[j], now, created + j)],
                    !.pc = IF ks = <<>> THEN "done" ELSE "dedup"]]
    /\ UNCHANGED <<now, alerts_table, published, faulted, fnVars, dpVars>>

IsDuplicateAlertFailClosed(i) ==
    /\ run[i].pc = "dedup"
    /\ \/ \E page \in ScanFirstPage(alerts_table) :
             /\ run' = [run EXCEPT ![i] =
                    IF is_duplicate_alert(Current(i), page, now)
                    THEN OnDuplicate(@) ELSE [@ EXCEPT !.pc = "store"]]
             /\ UNCHANGED faulted
       \/ /\ run' = [run EXCEPT ![i] = OnDuplicate(@)]
          /\ faulted' = TRUE
    /\ UNCHANGED <<now, created, alerts_table, published, fnVars, dpVars>>

\* is_duplicate_alert(alert): one scan; a failed scan counts as "no duplicate"
IsDuplicateAlert(i) ==
    /\ run[i].pc = "dedup"
    /\ \/ \E page \in ScanFirstPage(alerts_table) :
             /\ run' = [run EXCEPT ![i] =
                    IF is_duplicate_alert(Current(i), page, now)
                    THEN OnDuplicate(@) ELSE [@ EXCEPT !.pc = "store"]]
             /\ UNCHANGED faulted
       \/ /\ run' = [run EXCEPT ![i].pc = "store"]
          /\ faulted' = TRUE
    /\ UNCHANGED <<now, created, alerts_table, published, fnVars, dpVars>>

\* store_alert(alert)
StoreAlert(i) ==
    /\ run[i].pc = "store"
    /\ \/ /\ alerts_table' = put_item(alerts_table, Current(i))
          /\ run' = [run EXCEPT ![i].pc = "publish"]
          /\ UNCHANGED faulted
       \/ /\ run' = [run EXCEPT ![i] = OnStoreError(@)]
          /\ faulted' = TRUE
          /\ UNCHANGED alerts_table
    /\ UNCHANGED <<now, created, published, fnVars, dpVars>>

\* send_alert_notification(alert), up to sns.publish
Publish(i) ==
    /\ run[i].pc = "publish"
    /\ \/ /\ published' = published \cup
                {[topic |-> get_topic_for_alert(Current(i)),
                  alert_id |-> Current(i).alert_id,
                  timestamp |-> Current(i).timestamp,
                  key |-> DedupKey(Current(i))]}
          /\ run' = [run EXCEPT ![i].pc = "update"]
          /\ UNCHANGED faulted
       \/ /\ run' = [run EXCEPT ![i] = OnPublishError(@)]
          /\ faulted' = TRUE
          /\ UNCHANGED published
    /\ UNCHANGED <<now, created, alerts_table, fnVars, dpVars>>

\* send_alert_notification(alert), the update_item after the publish
MarkSent(i) ==
    /\ run[i].pc = "update"
    /\ \/ /\ alerts_table' = MarkNotificationSent(alerts_table, Current(i))
          /\ run' = [run EXCEPT ![i] = OnNotified(@, "processed")]
          /\ UNCHANGED faulted
       \/ /\ run' = [run EXCEPT ![i] = OnNotified(@, "update_failed")]
          /\ faulted' = TRUE
          /\ UNCHANGED alerts_table
    /\ UNCHANGED <<now, created, published, fnVars, dpVars>>

\* process_alerts returns processed_count; the invocation ends
Return(i) ==
    /\ run[i].pc = "done"
    /\ run' = [run EXCEPT ![i] = IdleRun]
    /\ UNCHANGED <<now, created, alerts_table, published, faulted, fnVars, dpVars>>

\* acknowledge_alert(alert_id, acknowledged_by), called by an operator
AcknowledgeAlert ==
    /\ \E id \in {r.alert_id : r \in alerts_table} :
          \/ /\ alerts_table' =
                  {IF r.alert_id = id THEN AckUpdate(r) ELSE r
                       : r \in alerts_table}
             /\ UNCHANGED faulted
          \/ /\ faulted' = TRUE
             /\ UNCHANGED alerts_table
    /\ UNCHANGED <<now, created, published, run, fnVars, dpVars>>

\* resolve_alert(alert_id, resolved_by), called by an operator
ResolveAlert ==
    /\ \E id \in {r.alert_id : r \in alerts_table} :
          \/ /\ alerts_table' =
                  {IF r.alert_id = id THEN ResolveUpdate(r) ELSE r
                       : r \in alerts_table}
             /\ UNCHANGED faulted
          \/ /\ faulted' = TRUE
             /\ UNCHANGED alerts_table
    /\ UNCHANGED <<now, created, published, run, fnVars, dpVars>>

Step(i) ==
    \/ StartRun(i)
    \/ IsDuplicateAlert(i)
    \/ StoreAlert(i)
    \/ Publish(i)
    \/ MarkSent(i)
    \/ Return(i)

\* scheduled runs one after the other (invocation 1), the operator, the clock
Next ==
    \/ Tick
    \/ Step(1)
    \/ AcknowledgeAlert
    \/ ResolveAlert

Spec == Init /\ [][Next]_vars

\* two invocations of the alerting function that overlap within one tick
ConcNext == \E i \in Invocations : Step(i)

ConcSpec == Init /\ [][ConcNext]_vars

----------------------------------------------------------------------------
\* Alert Manager: properties

InWindow(r1, r2) ==
    /\ DedupKey(r1) = DedupKey(r2)
    /\ r1.status = "active"
    /\ r2.status = "active"
    /\ Abs(r1.timestamp[1] - r2.timestamp[1]) < Hour

RowOf(alert) ==
    {r \in alerts_table : r.alert_id = alert.alert_id /\ r.timestamp = alert.timestamp}

\* C1: sequential runs, every repository call succeeds: two candidates of one
\* (alert_type, service, region) handled less than an hour apart, the first
\* still active, leave exactly one persisted alert and one notification of
\* that key
C1_SequentialDedup ==
    ~faulted =>
        /\ \A r1, r2 \in alerts_table : InWindow(r1, r2) => r1 = r2
        /\ \A r1, r2 \in alerts_table :
              (InWindow(r1, r2) /\ r1.notification_sent /\ r2.notification_sent)
              => r1.timestamp = r2.timestamp

\* C2: two overlapping invocations, every call succeeds: at most one active
\* alert and at most one notification per (alert_type, service, region)
C2_ConcurrentDedup ==
    ~faulted =>
        \A k \in {DedupKey(a) : a \in Kinds} :
            /\ Cardinality({r \in alerts_table : DedupKey(r) = k /\ r.status = "active"}) <= 1
            /\ Cardinality({p \in published : p.key = k}) <= 1

StatusRank(s) == CASE s = "active" -> 0 [] s = "acknowledged" -> 1 [] s = "resolved" -> 2

Persisted == {"processed", "publish_failed", "update_failed"}

\* C4: in process_alerts every candidate that is no duplicate and whose put
\* succeeds is persisted and stays so, and the loop handles every candidate
\* whatever failed before
C4_FailureIsolation ==
    \A i \in Invocations :
        /\ run[i].pc = "done" => Len(run[i].log) = Len(run[i].alerts)
        /\ run[i].pc \in {"publish", "update"} => RowOf(Current(i)) # {}
        /\ \A j \in 1..Len(run[i].log) :
              run[i].log[j] \in Persisted => RowOf(run[i].alerts[j]) # {}

\* a run whose first candidate could not be stored and whose second was
\* stored, though its notification failed
C4_Witness ==
    /\ run[1].pc = "done"
    /\ run[1].log = <<"store_failed", "publish_failed">>
    /\ RowOf(run[1].alerts[2]) # {}
    /\ RowOf(run[1].alerts[1]) = {}

----------------------------------------------------------------------------
\* Python numbers.  The boto3 resource returns every number attribute of an
\* item as decimal.Decimal; float(x) converts; sum() of no term is the int 0.
\* Arithmetic between a float and a Decimal raises TypeError, comparison
\* between them does not.

PyDecimal(n) == [t |-> "Decimal", v |-> n]
PyFloat(n) == [t |-> "float", v |-> n]
PyInt(n) == [t |-> "int", v |-> n]

\* float(record.get('cost_amount', 0))
CostOf(record) == IF record.cost_amount = None THEN PyFloat(0) ELSE PyFloat(record.cost_amount.v)

\* sum(float(...) for record in records)
SumCosts(records) ==
    IF records = <<>> THEN PyInt(0)
    ELSE PyFloat(SumSeq([i \in 1..Len(records) |-> CostOf(records[i]).v]))

\* a / b, a * b: unsupported operand type(s) for 'float' and 'decimal.Decimal'
RaisesTypeError(a, b) == {a.t, b.t} = {"float", "Decimal"}

\* a string attribute the record does not have
Missing == "<missing>"

\* a timestamp datetime.fromisoformat rejects
BadTimestamp == <<0, 0>>

\* the record has no key 'timestamp'
NoTimestamp == <<-1, 0>>

\* a timestamp that is a number (epoch seconds) and not a string
IntTimestamp == <<-2, 0>>

\* a cost_amount that is a string
PyStr(s) == [t |-> "str", v |-> s]

\* round(a / b, ...) for b > 0, ties to even
RoundDiv(a, b) ==
    LET q == a \div b
        r == a - q * b
    IN  IF 2 * r < b THEN q
        ELSE IF 2 * r > b THEN q + 1
        ELSE IF q % 2 = 0 THEN q ELSE q + 1

\* record.get('service_name', 'Unknown')
ServiceOf(record) == IF record.service_name = Missing THEN "Unknown" ELSE record.service_name

\* the keys of a dict in insertion order
RECURSIVE FirstSeen(_)
FirstSeen(s) ==
    IF s = <<>> THEN <<>>
    ELSE LET init == FirstSeen(SubSeq(s, 1, Len(s) - 1))
             last == s[Len(s)]
         IN  IF \E i \in 1..Len(init) : init[i] = last THEN init ELSE Append(init, last)

----------------------------------------------------------------------------
\* Budget Evaluator

\* check_budget_alerts: budget_item is the 'budgets' item of the configuration
\* table (None when absent), monthly_costs the month-to-date records
check_budget_alerts(budget_item, monthly_costs) ==
    IF budget_item = None THEN <<>>
    ELSE
      LET total_monthly_cost == SumCosts(monthly_costs)
          overall_budget == budget_item.overall_budget
          monthly_limit == IF overall_budget = None THEN None
                           ELSE overall_budget.monthly_limit
      IN  IF monthly_limit = None \/ monthly_limit.v = 0 THEN <<>>
          ELSE IF RaisesTypeError(total_monthly_cost, monthly_limit) THEN <<>>
          ELSE IF 100 * total_monthly_cost.v >= 100 * monthly_limit.v
          THEN << [alert_type |-> "budget_exceeded", severity |-> "critical",
                   service |-> "Overall", region |-> "All",
                   current_cost |-> total_monthly_cost.v,
                   threshold |-> monthly_limit.v] >>
          ELSE IF 100 * total_monthly_cost.v >= 80 * monthly_limit.v
          THEN IF RaisesTypeError(monthly_limit, PyFloat(0)) THEN <<>>
               ELSE << [alert_type |-> "budget_warning", severity |-> "warning",
                        service |-> "Overall", region |-> "All",
                        current_cost |-> total_monthly_cost.v,
                        threshold |-> (monthly_limit.v * 8) \div 10] >>
          ELSE <<>>

BudgetItems ==
    {None, [overall_budget |-> None]}
        \cup {[overall_budget |-> [monthly_limit |-> l]] : l \in {None, PyDecimal(0), PyDecimal(100)}}

BudgetCosts == {PyDecimal(0), PyDecimal(39), PyDecimal(40), PyDecimal(50), PyDecimal(60)}

BudgetInputs ==
    [budget_item : BudgetItems,
     monthly_costs : SeqsUpTo([cost_amount : BudgetCosts], 2)]

InitBudget ==
    /\ InitAlertManager
    /\ InitNoData
    /\ fn = ""
    /\ args \in BudgetInputs
    /\ ret = None

CallCheckBudgetAlerts ==
    /\ fn = ""
    /\ fn' = "check_budget_alerts"
    /\ ret' = check_budget_alerts(args.budget_item, args.monthly_costs)
    /\ UNCHANGED <<args, amVars, dpVars>>

BudgetSpec == InitBudget /\ [][CallCheckBudgetAlerts]_vars

\* the budget item holds a monthly limit
HasLimit(item) ==
    /\ item # None
    /\ item.overall_budget # None
    /\ item.overall_budget.monthly_limit # None

\* C5: with a limit L > 0 and a month-to-date total T, exactly one
\* budget_exceeded (critical) when T >= L, exactly one budget_warning
\* (warning) when 80% of L <= T < L, nothing below 80%; nothing at all
\* without budget item or limit
C5_BudgetCheckpoints ==
    fn = "check_budget_alerts" =>
        LET T == SumCosts(args.monthly_costs).v
        IN  IF ~HasLimit(args.budget_item) THEN ret = <<>>
            ELSE LET L == args.budget_item.overall_budget.monthly_limit.v IN
              L > 0 =>
                /\ 100 * T >= 100 * L =>
                      /\ Len(ret) = 1
                      /\ ret[1].alert_type = "budget_exceeded"
                      /\ ret[1].severity = "critical"
                /\ (80 * L <= 100 * T /\ 100 * T < 100 * L) =>
                      /\ Len(ret) = 1
                      /\ ret[1].alert_type = "budget_warning"
                      /\ ret[1].severity = "warning"
                /\ 100 * T < 80 * L => ret = <<>>

----------------------------------------------------------------------------
\* Threshold Evaluator

\* per-service totals of the day's records (service_costs), as a function on
\* the services seen
ServiceTotal(records, service) ==
    SumSeq([i \in 1..Len(records) |->
               IF ServiceOf(records[i]) = service THEN CostOf(records[i]).v ELSE 0])

\* `if daily_threshold and cost > daily_threshold`
ServiceBreach(cost, daily_threshold) ==
    /\ daily_threshold # None
    /\ daily_threshold.v # 0
    /\ cost > daily_threshold.v

\* check_threshold_alerts: daily_thresholds is config['cost_thresholds']['daily']
\* as the sequence of its (severity, limit) items ( <<>> when absent),
\* service_thresholds maps a configured service to its 'daily' entry (None
\* when it has none), daily_costs are the records get_daily_costs returned
check_threshold_alerts(daily_thresholds, service_thresholds, daily_costs) ==
    LET total_daily_cost == SumCosts(daily_costs).v
        Exceeded(item) == total_daily_cost > item[2].v
        over == SelectSeq(daily_thresholds, Exceeded)
        overall == [i \in 1..Len(over) |->
                      [alert_type |-> "threshold_breach", severity |-> over[i][1],
                       service |-> "Overall", region |-> "All",
                       current_cost |-> total_daily_cost, threshold |-> over[i][2].v]]
        services == FirstSeen([i \in 1..Len(daily_costs) |-> ServiceOf(daily_costs[i])])
        Breached(service) ==
            /\ service \in DOMAIN service_thresholds
            /\ ServiceBreach(ServiceTotal(daily_costs, service), service_thresholds[service])
        hit == SelectSeq(services, Breached)
        perService == [i \in 1..Len(hit) |->
                      [alert_type |-> "service_threshold_breach", severity |-> "warning",
                       service |-> hit[i], region |-> "All",
                       current_cost |-> ServiceTotal(daily_costs, hit[i]),
                       threshold |-> service_thresholds[hit[i]].v]]
    IN  overall \o perService

DailyThresholdConfigs ==
    { <<>>,
      << <<"warning", PyDecimal(100)>> >>,
      << <<"warning", PyDecimal(100)>>, <<"critical", PyDecimal(200)>> >> }

ServiceThresholdConfigs ==
    { [s \in {"EC2"} |-> l] : l \in {None, PyDecimal(0), PyDecimal(50)} }
        \cup { [s \in {"S3"} |-> PyDecimal(50)] }

ThresholdRecords ==
    [service_name : {"EC2", "S3", Missing},
     cost_amount : {None, PyDecimal(50), PyDecimal(51), PyDecimal(150)}]

ThresholdInputs ==
    [daily_thresholds : DailyThresholdConfigs,
     service_thresholds : ServiceThresholdConfigs,
     daily_costs : SeqsUpTo(ThresholdRecords, 2)]

InitThreshold ==
    /\ InitAlertManager
    /\ InitNoData
    /\ fn = ""
    /\ args \in ThresholdInputs
    /\ ret = None

CallCheckThresholdAlerts ==
    /\ fn = ""
    /\ fn' = "check_threshold_alerts"
    /\ ret' = check_threshold_alerts(args.daily_thresholds, args.service_thresholds,
                                     args.daily_costs)
    /\ UNCHANGED <<args, amVars, dpVars>>

ThresholdSpec == InitThreshold /\ [][CallCheckThresholdAlerts]_vars

Range(s) == {s[i] : i \in 1..Len(s)}

\* C6: the result holds exactly one threshold_breach of severity s for each
\* configured daily (s, limit) with limit < overall total, and one
\* service_threshold_breach (warning) for each service whose configured daily
\* limit is < that service's total; nothing else
C6_ThresholdOutput ==
    fn = "check_threshold_alerts" =>
        LET total == SumCosts(args.daily_costs).v
            seen == {ServiceOf(args.daily_costs[i]) : i \in 1..Len(args.daily_costs)}
            expectOverall ==
                {<<"threshold_breach", item[1], "Overall">> :
                    item \in {x \in Range(args.daily_thresholds) : x[2].v < total}}
            expectService ==
                {<<"service_threshold_breach", "warning", s>> :
                    s \in {x \in seen \cap DOMAIN args.service_thresholds :
                             /\ args.service_thresholds[x] # None
                             /\ args.service_thresholds[x].v
                                    < ServiceTotal(args.daily_costs, x)}}
        IN  /\ {<<a.alert_type, a.severity, a.service>> : a \in Range(ret)}
                  = expectOverall \cup expectService
            /\ Len(ret) = Cardinality(expectOverall \cup expectService)

----------------------------------------------------------------------------
\* Anomaly Detector (alerting.detect_service_anomalies and
\* data_processing.detect_cost_anomalies)

MaxDays == 15

\* `if len(costs) < 7`
MinDays == 7

\* a stored cost record; its timestamp is <<date, time of day>>, so that
\* record['timestamp'][:10] is the first component; time of day 0 stands for
\* a timestamp that is the date alone ('YYYY-MM-DD', as the collector writes)
CostRecord(service, day, k, cost) ==
    [service_id |-> service, service_name |-> service, timestamp |-> <<day, k>>, cost_amount |-> PyDecimal(cost)]

DateOf(record) == record.timestamp[1]

RECURSIVE SumFn(_, _)
SumFn(f, D) ==
    IF D = {} THEN 0
    ELSE LET d == CHOOSE x \in D : TRUE IN f[d] + SumFn(f, D \ {d})

Max(S) == CHOOSE x \in S : \A y \in S : y <= x

\* service_daily_costs[service]: the summed cost of each date seen for it
DailyCostsOf(cost_data, service) ==
    LET idx == {i \in 1..Len(cost_data) : ServiceOf(cost_data[i]) = service}
        dates == {DateOf(cost_data[i]) : i \in idx}
    IN  [d \in dates |->
            SumSeq([i \in 1..Len(cost_data) |->
                      IF i \in idx /\ DateOf(cost_data[i]) = d
                      THEN CostOf(cost_data[i]).v ELSE 0])]

\* statistics of a daily series in exact integers: with n values of sum S,
\*   mean = S / n   and   stdev^2 = Variance / (n * (n - 1))
Total(daily) == SumFn(daily, DOMAIN daily)

Variance(daily) ==
    LET n == Cardinality(DOMAIN daily)
        S == Total(daily)
    IN  n * SumFn([d \in DOMAIN daily |-> daily[d] * daily[d]], DOMAIN daily) - S * S

ZScoreAbovePopulation(daily, cost, p, q) ==
    LET n == Cardinality(DOMAIN daily)
        D == Abs(n * cost - Total(daily))
    IN  q * q * D * D > p * p * Variance(daily)

\* abs(cost - mean) / stdev > p / q, for stdev > 0
ZScoreAbove(daily, cost, p, q) ==
    LET n == Cardinality(DOMAIN daily)
        D == Abs(n * cost - Total(daily))
    IN  q * q * D * D * (n - 1) > p * p * n * Variance(daily)

\* sensitivity_thresholds.get(sensitivity, 2.5) as a fraction <<p, q>>
SensitivityThresholdBelowTwo(sensitivity) ==
    CASE sensitivity = "low" -> <<3, 1>>
      [] sensitivity = "medium" -> <<5, 2>>
      [] sensitivity = "high" -> <<3, 2>>
      [] OTHER -> <<5, 2>>

SensitivityThresholdLoose(sensitivity) ==
    CASE sensitivity = "low" -> <<3, 1>>
      [] sensitivity = "medium" -> <<2, 1>>
      [] sensitivity = "high" -> <<5, 2>>
      [] OTHER -> <<5, 2>>

SensitivityThreshold(sensitivity) ==
    CASE sensitivity = "low" -> <<3, 1>>
      [] sensitivity = "medium" -> <<5, 2>>
      [] sensitivity = "high" -> <<2, 1>>
      [] OTHER -> <<5, 2>>

StdNonNegative(daily) == Variance(daily) >= 0

\* `if cost_std > 0`
StdPositive(daily) == Variance(daily) > 0

Returned(value) == [raised |-> "", value |-> value]

Raised(exception) == [raised |-> exception, value |-> <<>>]

\* record['timestamp'] raises KeyError when the record has no timestamp
LacksTimestamp(cost_data) ==
    \E i \in 1..Len(cost_data) : cost_data[i].timestamp = NoTimestamp

ExaminedAboveMinimum(cost_data, service) ==
    Cardinality(DOMAIN DailyCostsOf(cost_data, service)) > MinDays

\* the services whose series is long enough to be examined
Examined(cost_data, service) ==
    Cardinality(DOMAIN DailyCostsOf(cost_data, service)) >= MinDays

\* a z-score is computed by a division by cost_std
DividesByZero(cost_data, service) ==
    LET daily == DailyCostsOf(cost_data, service)
    IN  Examined(cost_data, service) /\ StdPositive(daily) /\ Variance(daily) = 0

Flagged(cost_data, service, date, sensitivity) ==
    LET daily == DailyCostsOf(cost_data, service)
        thr == SensitivityThreshold(sensitivity)
    IN  /\ Examined(cost_data, service)
        /\ StdPositive(daily)
        /\ ZScoreAbove(daily, daily[date], thr[1], thr[2])

\* detect_service_anomalies; expected_cost and deviation (rounded floats) are
\* left out of the anomaly, 'description' is reduced to its spike / drop word
detect_service_anomalies(cost_data, sensitivity) ==
    LET services == FirstSeen([i \in 1..Len(cost_data) |-> ServiceOf(cost_data[i])])
        latest_date(service) == Max(DOMAIN DailyCostsOf(cost_data, service))
        Anomalous(service) ==
            Flagged(cost_data, service, latest_date(service), sensitivity)
        hit == SelectSeq(services, Anomalous)
        anomaly(service) ==
            LET daily == DailyCostsOf(cost_data, service)
                n == Cardinality(DOMAIN daily)
                latest_cost == daily[latest_date(service)]
            IN  [service |-> service,
                 date |-> latest_date(service),
                 current_cost |-> PyDecimal(latest_cost),
                 severity |-> IF ZScoreAbove(daily, latest_cost, 3, 1) THEN "critical"
                              ELSE IF ZScoreAbove(daily, latest_cost, 2, 1) THEN "warning"
                              ELSE "info",
                 description |-> IF n * latest_cost > Total(daily) THEN "spike" ELSE "drop"]
    IN  IF LacksTimestamp(cost_data) THEN Raised("KeyError")
        ELSE IF \E i \in 1..Len(services) : DividesByZero(cost_data, services[i])
        THEN Raised("ZeroDivisionError")
        ELSE Returned([i \in 1..Len(hit) |-> anomaly(hit[i])])

\* check_cost_anomalies, given the anomaly_detection configuration and the
\* records get_cost_data_range returned: the alerts of the anomalies, in the
\* form create_alert receives them (threshold is expected_cost, the mean
\* rounded to hundredths); any exception is logged and gives no alert
check_cost_anomalies(anomaly_config, cost_data) ==
    IF ~anomaly_config.enabled THEN <<>>
    ELSE LET anomalies == detect_service_anomalies(cost_data, anomaly_config.sensitivity)
             expected_cost(service) ==
                 LET daily == DailyCostsOf(cost_data, service)
                 IN  RoundDiv(100 * Total(daily), Cardinality(DOMAIN daily))
         IN  IF anomalies.raised # "" THEN <<>>
             ELSE [i \in 1..Len(anomalies.value) |->
                     [alert_type |-> "anomaly_detection",
                      severity |-> anomalies.value[i].severity,
                      service |-> anomalies.value[i].service,
                      region |-> "All",
                      current_cost |-> anomalies.value[i].current_cost.v,
                      threshold |-> expected_cost(anomalies.value[i].service)]]

\* detect_cost_anomalies: every date of every examined service; the result is
\* kept as the set of its anomalies (the final sort by deviation is not
\* represented), expected_cost and deviation are left out
detect_cost_anomalies(cost_data, sensitivity) ==
    LET services == {ServiceOf(cost_data[i]) : i \in 1..Len(cost_data)}
        anomaly(service, date) ==
            LET daily == DailyCostsOf(cost_data, service)
                n == Cardinality(DOMAIN daily)
            IN  [service |-> service,
                 date |-> date,
                 cost |-> PyDecimal(daily[date]),
                 severity |-> IF ZScoreAbove(daily, daily[date], 3, 1) THEN "high"
                              ELSE IF ZScoreAbove(daily, daily[date], 2, 1) THEN "medium"
                              ELSE "low",
                 type |-> IF n * daily[date] > Total(daily) THEN "spike" ELSE "drop"]
    IN  IF \E service \in services : DividesByZero(cost_data, service)
        THEN Raised("ZeroDivisionError")
        ELSE Returned(UNION {
                {anomaly(service, date) :
                    date \in {d \in DOMAIN DailyCostsOf(cost_data, service) :
                                Flagged(cost_data, service, d, sensitivity)}} :
                service \in services})

\* n days of one service: every day costs `base` except day `pos`, which costs
\* `odd`; with `split`, day pos is stored as two records
Series(service, n, base, odd, pos, split) ==
    LET first == [i \in 1..n |->
                    CostRecord(service, i, 0,
                               IF i # pos THEN base
                               ELSE IF split THEN odd \div 2 ELSE odd)]
    IN  IF split THEN first \o <<CostRecord(service, pos, 1, odd - odd \div 2)>>
        ELSE first

OtherService(kind) ==
    CASE kind = "none" -> <<>>
      [] kind = "flat" -> Series("S3", MinDays, 50, 50, MinDays, FALSE)
      [] kind = "spiky" -> Series("S3", MinDays, 50, 500, MinDays, FALSE)

Sensitivities == {"low", "medium", "high", "extreme"}

AnomalyInputs ==
    {[cost_data |-> Series("EC2", n, base, odd, IF last THEN n ELSE 1, split)
                       \o OtherService(kind),
      sensitivity |-> sensitivity] :
        n \in 1..MaxDays, base \in {0, 100}, odd \in {0, 100, 300},
        last \in BOOLEAN, split \in BOOLEAN,
        kind \in {"none", "flat", "spiky"}, sensitivity \in Sensitivities}

InitAnomaly ==
    /\ InitAlertManager
    /\ InitNoData
    /\ fn = ""
    /\ args \in AnomalyInputs
    /\ ret = None

CallDetectServiceAnomalies ==
    /\ fn = ""
    /\ fn' = "detect_service_anomalies"
    /\ ret' = detect_service_anomalies(args.cost_data, args.sensitivity)
    /\ UNCHANGED <<args, amVars, dpVars>>

CallDetectCostAnomalies ==
    /\ fn = ""
    /\ fn' = "detect_cost_anomalies"
    /\ ret' = detect_cost_anomalies(args.cost_data, args.sensitivity)
    /\ UNCHANGED <<args, amVars, dpVars>>

AnomalyNext == CallDetectServiceAnomalies \/ CallDetectCostAnomalies

AnomalySpec == InitAnomaly /\ [][AnomalyNext]_vars

ServicesOf(cost_data) == {ServiceOf(cost_data[i]) : i \in 1..Len(cost_data)}

\* the series of the service is n - 1 days at 100 followed by a latest day at 300
SingleSpike(cost_data, service, n) ==
    LET daily == DailyCostsOf(cost_data, service)
    IN  /\ DOMAIN daily = 1..n
        /\ daily[n] = 300
        /\ \A d \in 1..(n - 1) : daily[d] = 100

\* the anomalies returned for the service are exactly one, for day n, with
\* current_cost 300, described as a spike
OneSpikeAnomaly(service, n) ==
    /\ ret.raised = ""
    /\ LET found == SelectSeq(ret.value, LAMBDA a : a.service = service)
       IN  /\ Len(found) = 1
           /\ found[1].date = n
           /\ found[1].current_cost.v = 300
           /\ found[1].description = "spike"

NoAnomalyFor(service) ==
    /\ ret.raised = ""
    /\ \A i \in 1..Len(ret.value) : ret.value[i].service # service

\* C7 (as stated): for 7 <= n <= 15, a series of n - 1 days at 100 and a latest
\* day at 300 yields, at sensitivity medium, exactly one anomaly (latest day,
\* current_cost 300, spike) from detect_service_anomalies
C7_SingleSpikeAsStated ==
    (fn = "detect_service_anomalies" /\ args.sensitivity = "medium") =>
        \A service \in ServicesOf(args.cost_data) : \A n \in 7..15 :
            SingleSpike(args.cost_data, service, n) => OneSpikeAnomaly(service, n)

\* C7 (amended): the single anomaly is returned for 9 <= n <= 15; for n = 7 and
\* n = 8 the z-score of the latest day, (n - 1) / sqrt(n), is below 2.5 and no
\* anomaly is returned
C7_SingleSpike ==
    (fn = "detect_service_anomalies" /\ args.sensitivity = "medium") =>
        \A service \in ServicesOf(args.cost_data) :
            /\ \A n \in 9..15 :
                 SingleSpike(args.cost_data, service, n) => OneSpikeAnomaly(service, n)
            /\ \A n \in 7..8 :
                 SingleSpike(args.cost_data, service, n) => NoAnomalyFor(service)

C7_Witness ==
    /\ fn = "detect_service_anomalies"
    /\ args.sensitivity = "medium"
    /\ SingleSpike(args.cost_data, "EC2", 9)
    /\ OneSpikeAnomaly("EC2", 9)

\* every day of the service has the same cost
ZeroVariance(cost_data, service) ==
    LET daily == DailyCostsOf(cost_data, service)
    IN  \A d1, d2 \in DOMAIN daily : daily[d1] = daily[d2]

\* C8: whatever the series length and the sensitivity, neither detector raises
\* and neither returns an anomaly for a service whose daily costs are all equal
C8_ZeroVarianceQuiet ==
    \A service \in ServicesOf(args.cost_data) :
        ZeroVariance(args.cost_data, service) =>
            /\ fn = "detect_service_anomalies" => NoAnomalyFor(service)
            /\ fn = "detect_cost_anomalies" =>
                 /\ ret.raised = ""
                 /\ \A a \in ret.value : a.service # service

\* a flat series of at least MinDays days was examined next to a series that
\* was flagged
C8_Witness ==
    /\ fn = "detect_cost_anomalies"
    /\ ZeroVariance(args.cost_data, "EC2")
    /\ Examined(args.cost_data, "EC2")
    /\ ret.raised = ""
    /\ \E a \in ret.value : a.service = "S3"

----------------------------------------------------------------------------
\* Data collection (store_cost_data) and data processing (lambda_handler of
\* data_processing, calculate_savings_opportunities).  Money in results is a
\* Decimal of two places, kept as an integer number of hundredths; rounding
\* is to the nearest hundredth of the exact value (the representation error
\* of the float being rounded is not represented).

\* get_recent_cost_data(days=30)
RecentDays == 30

\* `if len(daily_costs) >= 30`
ReservedDays == 30

ComputeService == "Amazon Elastic Compute Cloud - Compute"
StorageService == "Amazon Simple Storage Service"

\* `'Compute' in service or 'Database' in service`, over the service names
\* of the model
HasCompute(service) == service = ComputeService

\* `'Storage' in service or 'S3' in service`
HasStorage(service) == service \in {StorageService, "S3"}

RECURSIVE SetToSeq(_)
SetToSeq(S) ==
    IF S = {} THEN <<>>
    ELSE LET x == CHOOSE y \in S : TRUE IN <<x>> \o SetToSeq(S \ {x})

EmptyDict == <<>>

\* validate_cost_data: True, or the exception that leaves it. A missing
\* field and a timestamp fromisoformat rejects raise ValueError;
\* `cost_record['cost_amount'] < 0` raises TypeError for a cost that is not a
\* number, `cost_record['timestamp'].replace` raises AttributeError for a
\* timestamp that is not a string; a negative cost_amount is logged and
\* accepted
validate_cost_data(cost_record) ==
    IF \/ cost_record.service_id = Missing
       \/ cost_record.timestamp = NoTimestamp
       \/ cost_record.cost_amount = None
    THEN Raised("ValueError")
    ELSE IF cost_record.cost_amount.t \notin {"Decimal", "float", "int"}
    THEN Raised("TypeError")
    ELSE IF cost_record.timestamp = IntTimestamp THEN Raised("AttributeError")
    ELSE IF cost_record.timestamp = BadTimestamp THEN Raised("ValueError")
    ELSE Returned(TRUE)

\* batch_write_to_dynamodb: put_item replaces the row of the same key (the
\* batches of the model hold one record per key)
batch_write_to_dynamodb(table, items) ==
    {r \in table : \A i \in 1..Len(items) :
        <<items[i].service_id, items[i].timestamp>> # <<r.service_id, r.timestamp>>}
        \cup Range(items)

\* store_cost_data: the table after the call, or the exception it re-raises.
\* The loop skips a record on ValueError only; any other exception of
\* validate_cost_data leaves the loop before batch_write_to_dynamodb runs
store_cost_data(table, cost_data) ==
    IF cost_data = <<>> THEN Returned(table)
    ELSE LET Outcome(record) == validate_cost_data(record).raised
             uncaught == {i \in 1..Len(cost_data) :
                            Outcome(cost_data[i]) \notin {"", "ValueError"}}
             Valid(record) == Outcome(record) = ""
         IN  IF uncaught # {}
             THEN Raised(Outcome(cost_data[CHOOSE i \in uncaught :
                                              \A j \in uncaught : i <= j]))
             ELSE Returned(batch_write_to_dynamodb(table, SelectSeq(cost_data, Valid)))

\* Attr('timestamp').between(start 'YYYY-MM-DD', end 'YYYY-MM-DD'): strings
\* compare lexicographically, so a timestamp with a time part on the end
\* date is above the end
get_recent_cost_data(table, today) ==
    SetToSeq({r \in table :
                /\ r.timestamp # NoTimestamp
                /\ DateOf(r) >= today - RecentDays
                /\ \/ DateOf(r) < today
                   \/ DateOf(r) = today /\ r.timestamp[2] = 0})

\* Attr('timestamp').begins_with(date_str); the rows of the model fit in the
\* single page the function reads
get_cost_data_for_date(table, date) ==
    SetToSeq({r \in table : DateOf(r) = date})

\* daily_costs: summed cost of each date, over all services
DailyTotals(cost_data) ==
    [d \in {DateOf(cost_data[i]) : i \in 1..Len(cost_data)} |->
        SumSeq([i \in 1..Len(cost_data) |->
                  IF DateOf(cost_data[i]) = d THEN CostOf(cost_data[i]).v ELSE 0])]

Ascending(S) == SortSeq(SetToSeq(S), LAMBDA a, b : a < b)

analyze_daily_costs(cost_data) ==
    LET daily_costs == DailyTotals(cost_data)
        dates == Ascending(DOMAIN daily_costs)
        n == Len(dates)
        costs == SortSeq([i \in 1..n |-> daily_costs[dates[i]]], LAMBDA a, b : a < b)
    IN  IF LacksTimestamp(cost_data) THEN Raised("KeyError")
        ELSE IF n = 0 THEN Returned(EmptyDict)
        ELSE Returned(
             [total_days |-> n,
              average_daily_cost |-> RoundDiv(100 * SumSeq(costs), n),
              median_daily_cost |->
                  IF n % 2 = 1 THEN 100 * costs[(n + 1) \div 2]
                  ELSE 50 * (costs[n \div 2] + costs[n \div 2 + 1]),
              min_daily_cost |-> 100 * costs[1],
              max_daily_cost |-> 100 * costs[n],
              total_cost |-> 100 * SumSeq(costs),
              daily_breakdown |-> [d \in DOMAIN daily_costs |-> 100 * daily_costs[d]]])

\* analyze_cost_trends.  With c[0..n-1] the daily totals in date order,
\*   slope = 6 * M / (n * (n^2 - 1)),  M = sum of (2i - (n - 1)) * c[i];
\* daily_change_rate is in 1/10000, percent_change_week in 1/100; volatility
\* (a rounded square root) is left out; trend_strength keeps its Python type,
\* min(abs(slope) * 10, 100) being a float unless the int 100 is smaller
analyze_cost_trends(cost_data) ==
    LET daily_costs == DailyTotals(cost_data)
        sorted_dates == Ascending(DOMAIN daily_costs)
        n == Len(sorted_dates)
        costs == [i \in 1..n |-> daily_costs[sorted_dates[i]]]
        M == SumSeq([i \in 1..n |-> (2 * (i - 1) - (n - 1)) * costs[i]])
        den == n * (n * n - 1)
        recent == SumSeq(SubSeq(costs, n - 6, n))
        previous == IF n >= 14 THEN SubSeq(costs, n - 13, n - 7)
                    ELSE SubSeq(costs, 1, n - 7)
        percent_change ==
            IF n >= 7 /\ SumSeq(previous) > 0
            THEN RoundDiv(10000 * (recent * Len(previous) - 7 * SumSeq(previous)),
                          7 * SumSeq(previous))
            ELSE 0
    IN  IF n < 2 THEN Returned(EmptyDict)
        ELSE IF n >= 7 /\ previous = <<>> THEN Raised("StatisticsError")
        ELSE Returned(
              [trend_direction |-> IF M > 0 THEN "increasing"
                                   ELSE IF M < 0 THEN "decreasing" ELSE "stable",
               daily_change_rate |-> RoundDiv(60000 * M, den),
               percent_change_week |-> percent_change,
               trend_strength |-> IF 60 * Abs(M) > 100 * den THEN PyInt(100)
                                  ELSE PyFloat(RoundDiv(60 * Abs(M), den))])

\* analyze_service_costs: totals only (percentage, average_cost and
\* region_count are left out)
analyze_service_costs(cost_data) ==
    LET services == ServicesOf(cost_data)
    IN  [service_breakdown |->
            [service \in services |-> [total_cost |-> 100 * ServiceTotal(cost_data, service)]],
         service_count |-> Cardinality(services),
         total_cost |-> 100 * SumCosts(cost_data).v]

\* process_cost_analysis; analyze_regional_costs mirrors analyze_service_costs
\* per region and is left out (the records of the model carry one region),
\* and no recommendation is generated (they carry no resource_id)
\* process_cost_analysis, given the records get_recent_cost_data returned
process_cost_analysis(cost_data) ==
    LET daily_analysis == analyze_daily_costs(cost_data)
        trend_analysis == analyze_cost_trends(cost_data)
    IN  IF daily_analysis.raised # "" THEN daily_analysis
        ELSE IF trend_analysis.raised # "" THEN trend_analysis
        ELSE Returned([daily_analysis |-> daily_analysis.value,
                       trend_analysis |-> trend_analysis.value,
                       service_analysis |-> analyze_service_costs(cost_data)])

\* cost_analysis_table.put_item: the serializer rejects a Python float
PutItemAccepted(results) ==
    \/ "trend_analysis" \notin DOMAIN results
    \/ "trend_strength" \notin DOMAIN results.trend_analysis
    \/ results.trend_analysis.trend_strength.t # "float"

\* store_analysis_results: a rejected put is logged and dropped
store_analysis_results(table, analysis_type, period, results) ==
    IF PutItemAccepted(results)
    THEN {r \in table : <<r.analysis_type, r.period>> # <<analysis_type, period>>}
            \cup {[analysis_type |-> analysis_type, period |-> period, results |-> results]}
    ELSE table

\* generate_daily_summary's summary, for the records of yesterday
DailySummary(cost_data, yesterday) ==
    [date |-> yesterday,
     total_cost |-> 100 * SumCosts(cost_data).v,
     service_breakdown |->
        [service \in ServicesOf(cost_data) |-> 100 * ServiceTotal(cost_data, service)],
     record_count |-> Len(cost_data)]

\* calculate_savings_opportunities, in hundredths
calculate_savings_opportunities(cost_data) ==
    LET Costs(Keep(_)) ==
            SumSeq([i \in 1..Len(cost_data) |->
                      IF Keep(cost_data[i].service_name)
                      THEN CostOf(cost_data[i]).v ELSE 0])
        rightsizing == 20 * Costs(HasCompute)
        Reservable(service) ==
            LET daily == DailyCostsOf(cost_data, service)
            IN  /\ HasCompute(service)
                /\ Cardinality(DOMAIN daily) >= ReservedDays
                /\ \A d \in DOMAIN daily : daily[d] > 0
        reserved(service) ==
            LET daily == DailyCostsOf(cost_data, service)
            IN  IF Reservable(service)
                THEN RoundDiv(900 * Total(daily), Cardinality(DOMAIN daily)) ELSE 0
        services == ServicesOf(cost_data)
        reserved_instances == SumFn([service \in services |-> reserved(service)], services)
        idle_resources == 10 * SumCosts(cost_data).v
        storage_optimization == 5 * Costs(HasStorage)
    IN  [rightsizing |-> rightsizing,
         reserved_instances |-> reserved_instances,
         idle_resources |-> idle_resources,
         storage_optimization |-> storage_optimization,
         total_potential |-> rightsizing + reserved_instances + idle_resources
                                + storage_optimization]

\* what one collection run hands to store_cost_data: a daily series of the
\* compute service, alone or with one more record
ExtraRecords(kind, n) ==
    CASE kind = "none" -> <<>>
      [] kind = "storage" -> <<CostRecord(StorageService, n, 0, 3)>>
      [] kind = "credit" -> <<CostRecord(StorageService, n, 0, -8)>>
      [] kind = "no_amount" ->
            <<[CostRecord(StorageService, n, 0, 3) EXCEPT !.cost_amount = None]>>
      [] kind = "bad_timestamp" ->
            <<[CostRecord(StorageService, n, 0, 3) EXCEPT !.timestamp = BadTimestamp]>>
      [] kind = "no_timestamp" ->
            <<[CostRecord(StorageService, n, 0, 3) EXCEPT !.timestamp = NoTimestamp]>>
      [] kind = "int_timestamp" ->
            <<[CostRecord(StorageService, n, 0, 3) EXCEPT !.timestamp = IntTimestamp]>>
      [] kind = "str_amount" ->
            <<[CostRecord(StorageService, n, 0, 3) EXCEPT !.cost_amount = PyStr("3")]>>

SeriesLengths == (1..MaxDays) \cup {ReservedDays}

CollectedBatches ==
    {<<>>} \cup
    {Series(ComputeService, n, base, odd, n, FALSE) \o ExtraRecords(kind, n) :
        n \in SeriesLengths, base \in {-5, 0, 5}, odd \in {-5, 5, 500},
        kind \in {"none", "storage", "credit", "no_amount", "bad_timestamp",
                  "no_timestamp", "int_timestamp", "str_amount"}}

\* the days on which processing may run: the collector stores days before
\* its own day
Todays(table) ==
    IF table = {} THEN {1}
    ELSE LET latest == Max({DateOf(r) : r \in table}) IN {latest + 1, latest + 2}

InitProcessing ==
    /\ InitAlertManager
    /\ InitNoCall
    /\ InitNoData

StoreCostData ==
    /\ fn = ""
    /\ \E cost_data \in CollectedBatches :
         LET result == store_cost_data(cost_data_table, cost_data)
         IN  /\ args' = cost_data
             /\ ret' = [raised |-> result.raised]
             /\ cost_data_table' = IF result.raised = "" THEN result.value
                                   ELSE cost_data_table
    /\ fn' = "store_cost_data"
    /\ UNCHANGED <<cost_analysis_table, recommendations_table, amVars>>

\* lambda_handler, default report type
LambdaHandlerAnalysis ==
    /\ fn = "store_cost_data"
    /\ \E today \in Todays(cost_data_table) :
         LET result == process_cost_analysis(get_recent_cost_data(cost_data_table, today))
         IN  /\ args' = [report_type |-> "analysis", today |-> today]
             /\ IF result.raised # ""
                THEN /\ ret' = [statusCode |-> 500]
                     /\ UNCHANGED cost_analysis_table
                ELSE /\ ret' = [statusCode |-> 200]
                     /\ cost_analysis_table' =
                          store_analysis_results(cost_analysis_table, "trend_analysis",
                                                 today, result.value)
    /\ fn' = "lambda_handler"
    /\ UNCHANGED <<cost_data_table, recommendations_table, amVars>>

\* lambda_handler, report_type 'daily_summary' (the notification of the
\* summary is not represented)
LambdaHandlerDailySummary ==
    /\ fn = "store_cost_data"
    /\ \E today \in Todays(cost_data_table) :
         LET cost_data == get_cost_data_for_date(cost_data_table, today - 1)
         IN  /\ args' = [report_type |-> "daily_summary", today |-> today]
             /\ cost_analysis_table' =
                  IF cost_data = <<>> THEN cost_analysis_table
                  ELSE store_analysis_results(cost_analysis_table, "daily_summary",
                                              today, DailySummary(cost_data, today - 1))
    /\ ret' = [statusCode |-> 200]
    /\ fn' = "lambda_handler"
    /\ UNCHANGED <<cost_data_table, recommendations_table, amVars>>

CallAnalyzeCostTrends ==
    /\ fn = "store_cost_data"
    /\ fn' = "analyze_cost_trends"
    /\ ret' = analyze_cost_trends(SetToSeq(cost_data_table))
    /\ UNCHANGED <<args, dpVars, amVars>>

CallCalculateSavingsOpportunities ==
    /\ fn = "store_cost_data"
    /\ fn' = "calculate_savings_opportunities"
    /\ ret' = Returned(calculate_savings_opportunities(SetToSeq(cost_data_table)))
    /\ UNCHANGED <<args, dpVars, amVars>>

\* calculate_forecast(cost_data, forecast_days=30)
ForecastDays == 30

\* `if len(sorted_dates) < 7`
MinForecastDays == 7

ClampNone(x) == x

\* max(0, ...)
ClampNonNegative(x) == IF x < 0 THEN 0 ELSE x

\* calculate_forecast.  With slope as in analyze_cost_trends and
\* intercept = y_mean - slope * x_mean, the forecast for day i ahead is
\*   slope * (n + i - 1) + intercept
\*     = (S * (n^2 - 1) + 3 * M * (n + 2i - 1)) / (n * (n^2 - 1));
\* forecasted_cost and daily_change are in hundredths, the forecast dates are
\* the offsets 1..forecast_days after the last date, confidence (a float) is
\* left out
calculate_forecast(cost_data, forecast_days) ==
    LET daily_costs == DailyTotals(cost_data)
        sorted_dates == Ascending(DOMAIN daily_costs)
        n == Len(sorted_dates)
        costs == [i \in 1..n |-> daily_costs[sorted_dates[i]]]
        S == SumSeq(costs)
        M == SumSeq([i \in 1..n |-> (2 * (i - 1) - (n - 1)) * costs[i]])
        den == n * (n * n - 1)
    IN  IF n < MinForecastDays THEN None
        ELSE [forecast |->
                [i \in 1..forecast_days |->
                    [date |-> sorted_dates[n] + i,
                     forecasted_cost |->
                        ClampNonNegative(
                            RoundDiv(100 * (S * (n * n - 1) + 3 * M * (n + 2 * i - 1)),
                                     den))]],
              trend |-> IF M > 0 THEN "increasing"
                        ELSE IF M < 0 THEN "decreasing" ELSE "stable",
              daily_change |-> RoundDiv(600 * M, den)]

CallCalculateForecast ==
    /\ fn = "store_cost_data"
    /\ fn' = "calculate_forecast"
    /\ ret' = Returned(calculate_forecast(SetToSeq(cost_data_table), ForecastDays))
    /\ UNCHANGED <<args, dpVars, amVars>>

ProcessingNext ==
    \/ CallCalculateForecast
    \/ StoreCostData
    \/ LambdaHandlerAnalysis
    \/ LambdaHandlerDailySummary
    \/ CallAnalyzeCostTrends
    \/ CallCalculateSavingsOpportunities

ProcessingSpec == InitProcessing /\ [][ProcessingNext]_vars

NonNegativeDict(d) == \A key \in DOMAIN d : d[key] >= 0

\* C9: every cost and savings value the engine stores or returns for storage
\* is >= 0, whichever accepted records are in the repository: the daily
\* summary totals and breakdown, the totals of analyze_daily_costs and of the
\* service analysis, and every category of calculate_savings_opportunities
C9_NonNegativeStored ==
    /\ \A rec \in cost_analysis_table :
         /\ rec.analysis_type = "daily_summary" =>
              /\ rec.results.total_cost >= 0
              /\ NonNegativeDict(rec.results.service_breakdown)
         /\ rec.analysis_type = "trend_analysis" =>
              /\ rec.results.service_analysis.total_cost >= 0
              /\ \A service \in DOMAIN rec.results.service_analysis.service_breakdown :
                   rec.results.service_analysis.service_breakdown[service].total_cost >= 0
              /\ DOMAIN rec.results.daily_analysis # {} =>
                   /\ rec.results.daily_analysis.total_cost >= 0
                   /\ rec.results.daily_analysis.min_daily_cost >= 0
                   /\ rec.results.daily_analysis.max_daily_cost >= 0
                   /\ rec.results.daily_analysis.average_daily_cost >= 0
                   /\ rec.results.daily_analysis.median_daily_cost >= 0
                   /\ NonNegativeDict(rec.results.daily_analysis.daily_breakdown)
    /\ fn = "calculate_savings_opportunities" => NonNegativeDict(ret.value)

StoredDates == {DateOf(r) : r \in cost_data_table}

\* C10: analyze_cost_trends never raises; it returns the empty value below 2
\* distinct dates and a result with trend_direction and percent_change_week
\* from 2 dates on; and the standard analysis run over a repository with
\* records on exactly 7 dates returns statusCode 200 and stores a
\* trend_analysis record
C10_TrendTotal ==
    /\ fn = "analyze_cost_trends" =>
         /\ ret.raised = ""
         /\ Cardinality(StoredDates) < 2 => DOMAIN ret.value = {}
         /\ Cardinality(StoredDates) >= 2 =>
              {"trend_direction", "percent_change_week"} \subseteq DOMAIN ret.value
    /\ (fn = "lambda_handler" /\ args.report_type = "analysis"
            /\ Cardinality(StoredDates) = 7) =>
         /\ ret.statusCode = 200
         /\ \E rec \in cost_analysis_table : rec.analysis_type = "trend_analysis"

\* every stored day has the same total cost
ConstantSeries ==
    \A r1, r2 \in cost_data_table :
        DailyTotals(SetToSeq(cost_data_table))[DateOf(r1)]
            = DailyTotals(SetToSeq(cost_data_table))[DateOf(r2)]

ConstantCost ==
    DailyTotals(SetToSeq(cost_data_table))[Max(StoredDates)]

\* analyze_cost_trends, where it returns a result for a constant series of at
\* least 2 days, returns slope 0 and direction stable
ConstantTrendStable ==
    (fn = "analyze_cost_trends" /\ ConstantSeries /\ Cardinality(StoredDates) >= 2
        /\ ret.raised = "") =>
        /\ ret.value.daily_change_rate = 0
        /\ ret.value.trend_direction = "stable"

ConstantForecast == fn = "calculate_forecast" /\ ConstantSeries /\ Cardinality(StoredDates) >= 7

\* C11 (as stated): a constant series gives slope 0 and direction stable, and
\* a forecast with trend stable whose every forecasted_cost is the constant
C11_ConstantStableAsStated ==
    /\ ConstantTrendStable
    /\ ConstantForecast =>
         /\ ret.value.trend = "stable"
         /\ \A i \in 1..ForecastDays :
              ret.value.forecast[i].forecasted_cost = 100 * ConstantCost

\* C11 (amended): as above, but every forecasted_cost is the constant clamped
\* at zero: 0 when the constant daily cost is negative
C11_ConstantStable ==
    /\ ConstantTrendStable
    /\ ConstantForecast =>
         /\ ret.value.trend = "stable"
         /\ Len(ret.value.forecast) = ForecastDays
         /\ \A i \in 1..ForecastDays :
              ret.value.forecast[i].forecasted_cost
                  = IF ConstantCost < 0 THEN 0 ELSE 100 * ConstantCost

C11_Witness ==
    /\ ConstantForecast
    /\ ConstantCost < 0
    /\ ret.value.trend = "stable"
    /\ ret.value.forecast[ForecastDays].forecasted_cost = 0

----------------------------------------------------------------------------
\* Recommendation generator (generate_optimization_recommendations)

MaxResources == 12

\* sorted_resources[:10]
TopResources == 10

\* `if data['total_cost'] > 100`
MinReviewCost == 100

\* 'high' if data['total_cost'] > 500
HighPriorityCost == 500

\* a resource id is <<prefix, number>>; record.get('resource_id') of a record
\* without the field is the falsy NoResource
NoResource == <<"", 0>>

ResourceRecord(resource_id, cost) ==
    [resource_id |-> resource_id, service_name |-> "EC2", region |-> "us-east-1",
     cost_amount |-> PyDecimal(cost)]

WorthReviewOrEqual(total_cost) == total_cost >= MinReviewCost

WorthReview(total_cost) == total_cost > MinReviewCost

\* resource_costs[resource_id]['total_cost']; `if resource_id:` skips the
\* records without one
ResourceTotal(cost_data, resource_id) ==
    SumSeq([i \in 1..Len(cost_data) |->
              IF cost_data[i].resource_id = resource_id
              THEN CostOf(cost_data[i]).v ELSE 0])

\* the resource ids in the order of their first record (dict order)
ResourceIds(cost_data) ==
    SelectSeq(FirstSeen([i \in 1..Len(cost_data) |-> cost_data[i].resource_id]),
              LAMBDA id : id # NoResource)

\* sorted(..., key=total_cost, reverse=True): stable, so equal totals keep
\* the dict order; the position of ids[i] is the number of entries before it
SortedPosition(cost_data, ids, i) ==
    1 + Cardinality({j \in 1..Len(ids) :
            \/ ResourceTotal(cost_data, ids[j]) > ResourceTotal(cost_data, ids[i])
            \/ /\ ResourceTotal(cost_data, ids[j]) = ResourceTotal(cost_data, ids[i])
               /\ j < i})

\* one recommendation; money in hundredths, estimated_savings is
\* round(total_cost * 0.2, 2); descriptive texts, created_at and ttl are
\* left out
Recommendation(resource_id, total_cost) ==
    [resource_id |-> resource_id,
     recommendation_type |-> "cost_review",
     service |-> "EC2",
     region |-> "us-east-1",
     current_cost |-> 100 * total_cost,
     estimated_savings |-> 20 * total_cost,
     confidence |-> "medium",
     priority |-> IF total_cost > HighPriorityCost THEN "high" ELSE "medium",
     status |-> "open",
     implemented |-> FALSE]

generate_optimization_recommendations(cost_data) ==
    LET ids == ResourceIds(cost_data)
        sorted_resources ==
            [k \in 1..Len(ids) |->
                ids[CHOOSE i \in 1..Len(ids) : SortedPosition(cost_data, ids, i) = k]]
        top == SubSeq(sorted_resources, 1,
                      IF Len(ids) < TopResources THEN Len(ids) ELSE TopResources)
        chosen == SelectSeq(top, LAMBDA id : WorthReview(ResourceTotal(cost_data, id)))
    IN  [k \in 1..Len(chosen) |->
            Recommendation(chosen[k], ResourceTotal(cost_data, chosen[k]))]

\* k resources r1..rk; resource i costs base + step * i, stored as one record
\* or, with `split`, as two; with `anonymous`, one more record without a
\* resource_id
ResourceName(i) == <<"r", i>>

ResourceRecords(k, base, step, split, anonymous) ==
    [i \in 1..k |-> ResourceRecord(ResourceName(i),
                                   IF split THEN 40 ELSE base + step * i)]
      \o (IF split
          THEN [i \in 1..k |-> ResourceRecord(ResourceName(i), base + step * i - 40)]
          ELSE <<>>)
      \o (IF anonymous THEN <<ResourceRecord(NoResource, 1000)>> ELSE <<>>)

RecommendationInputs ==
    {ResourceRecords(k, base, step, split, anonymous) :
        k \in 0..MaxResources, base \in {90, 100, 490, 500, 600},
        step \in {0, 1, 10}, split \in BOOLEAN, anonymous \in BOOLEAN}

InitRecommendation ==
    /\ InitAlertManager
    /\ InitNoData
    /\ fn = ""
    /\ args \in RecommendationInputs
    /\ ret = None

\* the recommendations are returned and, when there are any, written with
\* batch.put_item
CallGenerateOptimizationRecommendations ==
    /\ fn = ""
    /\ fn' = "generate_optimization_recommendations"
    /\ ret' = generate_optimization_recommendations(args)
    /\ recommendations_table' =
          {r \in recommendations_table :
              \A rec \in Range(generate_optimization_recommendations(args)) :
                  <<r.resource_id, r.recommendation_type>>
                      # <<rec.resource_id, rec.recommendation_type>>}
              \cup Range(generate_optimization_recommendations(args))
    /\ UNCHANGED <<args, amVars, cost_data_table, cost_analysis_table>>

RecommendationSpec == InitRecommendation /\ [][CallGenerateOptimizationRecommendations]_vars

\* the resources of the input and the resources recommended
InputResources == {args[i].resource_id : i \in 1..Len(args)} \ {NoResource}

Recommended == {ret[i].resource_id : i \in 1..Len(ret)}

\* C12: a resource is recommended iff its summed cost is > 100 and it is among
\* the 10 costliest; at most 10 recommendations, one per resource, each with
\* savings of 20% of current_cost, confidence medium, status open, priority
\* high exactly when the cost is > 500
C12_RecommendationSelection ==
    fn = "generate_optimization_recommendations" =>
        /\ Len(ret) <= 10
        /\ Len(ret) = Cardinality(Recommended)
        /\ Recommended \subseteq InputResources
        /\ \A id \in Recommended : ResourceTotal(args, id) > 100
        /\ \A id \in InputResources \ Recommended :
              \/ ResourceTotal(args, id) <= 100
              \/ /\ Len(ret) = 10
                 /\ \A other \in Recommended :
                       ResourceTotal(args, other) >= ResourceTotal(args, id)
        /\ \A i \in 1..Len(ret) :
              /\ ret[i].current_cost = 100 * ResourceTotal(args, ret[i].resource_id)
              /\ 5 * ret[i].estimated_savings = ret[i].current_cost
              /\ ret[i].confidence = "medium"
              /\ ret[i].status = "open"
              /\ ret[i].priority = "high" <=> ret[i].current_cost > 50000
              /\ ret[i].priority \in {"high", "medium"}
        /\ recommendations_table = Range(ret)

\* twelve resources above the minimum: ten are recommended, among them one of
\* cost 600 (high, savings 120); the two cheapest are not
C12_Witness ==
    /\ fn = "generate_optimization_recommendations"
    /\ Cardinality(InputResources) = 12
    /\ Len(ret) = 10
    /\ \E j \in 1..10 :
          /\ ret[j].current_cost = 60000
          /\ ret[j].priority = "high"
          /\ ret[j].estimated_savings = 12000
    /\ \E id \in InputResources \ Recommended : ResourceTotal(args, id) > 100

----------------------------------------------------------------------------
\* Alert Manager: notification flag

PublishedFor(alert) ==
    {p \in published : p.alert_id = alert.alert_id /\ p.timestamp = alert.timestamp}

\* the flag and the channel list of every row agree with the publishes, and
\* with the outcome of each candidate handled so far
NotificationFlagState ==
    /\ \A r \in alerts_table :
          /\ r.notification_sent => PublishedFor(r) # {}
          /\ r.notification_channels =
                IF r.notification_sent THEN <<"email", "slack">> ELSE <<>>
    /\ \A i \in Invocations : \A j \in 1..Len(run[i].log) :
          /\ run[i].log[j] = "publish_failed" =>
                /\ RowOf(run[i].alerts[j]) # {}
                /\ \A r \in RowOf(run[i].alerts[j]) :
                      ~r.notification_sent /\ r.notification_channels = <<>>
          /\ run[i].log[j] = "store_failed" => PublishedFor(run[i].alerts[j]) = {}

\* a row enters the table with the flag unset, and the flag is set only in a
\* state where the publish of that alert has been accepted
NotificationFlagStep ==
    \A q \in alerts_table' :
        q.notification_sent =>
            /\ RowOf(q) # {}
            /\ PublishedFor(q) # {}

\* C13: an alert has notification_sent = true only if it was persisted with
\* the flag false and its publish succeeded afterwards; after a failed
\* publish the alert stays persisted, unsent and without channels; after a
\* failed store no publish is made for it
C13_NotificationFlag == [](NotificationFlagState) /\ [][NotificationFlagStep]_vars

\* a run whose first alert was stored but not published and whose second was
\* stored, published and marked
C13_Witness ==
    /\ run[1].log = <<"publish_failed", "processed">>
    /\ \A r \in RowOf(run[1].alerts[1]) : ~r.notification_sent
    /\ RowOf(run[1].alerts[1]) # {}
    /\ \E r \in RowOf(run[1].alerts[2]) : r.notification_sent
    /\ PublishedFor(run[1].alerts[1]) = {}
    /\ PublishedFor(run[1].alerts[2]) # {}

----------------------------------------------------------------------------
\* The alerting pass run again: lambda_handler of alerting, with the
\* candidates of check_threshold_alerts on the same configuration and the
\* same records of the evaluated day (the records cover fewer than 7 days
\* and no budget item is configured, so the other two evaluators return
\* nothing).  ret is the sequence of the responses of the completed runs;
\* beside the body's threshold_alerts, total_alerts and timestamp a response
\* keeps what the run computed and left behind.

MaxRuns == 2

RerunInputs ==
    [daily_thresholds : DailyThresholdConfigs,
     service_thresholds : {[s \in {"EC2"} |-> PyDecimal(50)]},
     daily_costs : SeqsUpTo([service_name : {"EC2", "S3"},
                             cost_amount : {PyDecimal(51), PyDecimal(150)}], 2)]

InitRerun ==
    /\ InitAlertManager
    /\ InitNoData
    /\ fn = "lambda_handler"
    /\ args \in RerunInputs
    /\ ret = <<>>

ThresholdCandidates ==
    check_threshold_alerts(args.daily_thresholds, args.service_thresholds, args.daily_costs)

RerunStart ==
    /\ run[1].pc = "idle"
    /\ Len(ret) < MaxRuns
    /\ LET ks == ThresholdCandidates
       IN  /\ created' = created + Len(ks)
           /\ run' = [run EXCEPT ![1] =
                 [IdleRun EXCEPT
                     !.alerts = [j \in 1..Len(ks) |-> create_alert(ks[j], now, created + j)],
                     !.pc = IF ks = <<>> THEN "done" ELSE "dedup"]]
    /\ UNCHANGED <<now, alerts_table, published, faulted, fnVars, dpVars>>

RerunReturn ==
    /\ run[1].pc = "done"
    /\ ret' = Append(ret,
                [statusCode |-> 200,
                 threshold_alerts |-> Len(run[1].alerts),
                 total_alerts |-> run[1].processed_count,
                 timestamp |-> now,
                 candidates |-> {[alert_type |-> a.alert_type, severity |-> a.severity,
                                  service |-> a.service, region |-> a.region,
                                  current_cost |-> a.current_cost,
                                  threshold |-> a.threshold] : a \in Range(run[1].alerts)},
                 persisted |-> alerts_table,
                 notifications |-> Cardinality(published)])
    /\ run' = [run EXCEPT ![1] = IdleRun]
    /\ UNCHANGED <<now, created, alerts_table, published, faulted, fn, args, dpVars>>

RerunNext ==
    \/ Tick
    \/ RerunStart
    \/ IsDuplicateAlert(1)
    \/ StoreAlert(1)
    \/ Publish(1)
    \/ MarkSent(1)
    \/ RerunReturn

RerunSpec == InitRerun /\ [][RerunNext]_vars

\* two completed runs less than an hour apart, every call having succeeded
RanTwiceWithinHour ==
    /\ fn = "lambda_handler"
    /\ Len(ret) = 2
    /\ ~faulted
    /\ ret[2].timestamp - ret[1].timestamp < Hour

\* C14: the second of two runs within the hour on unchanged data computes the
\* same threshold candidates as the first, reports total_alerts = 0 and
\* leaves the persisted alerts and the number of notifications as the first
\* run left them
C14_IdempotentRerun ==
    RanTwiceWithinHour =>
        /\ ret[2].candidates = ret[1].candidates
        /\ ret[2].total_alerts = 0
        /\ ret[2].persisted = ret[1].persisted
        /\ ret[2].notifications = ret[1].notifications

\* ---------------------------------------------------------------------------
\* Ingestion: invalid records of a batch
\* ---------------------------------------------------------------------------

\* the record holds the three required fields and its timestamp parses as an
\* ISO date
WellFormed(record) ==
    /\ record.service_id # Missing
    /\ record.cost_amount # None
    /\ record.timestamp \notin {NoTimestamp, IntTimestamp, BadTimestamp}

\* the record fails validation: a required field is missing, the timestamp
\* is malformed, or the timestamp or the cost has the wrong type
FailsValidation(record) ==
    \/ ~WellFormed(record)
    \/ record.cost_amount.t \notin {"Decimal", "float", "int"}

\* C15: for every batch given to store_cost_data, the call does not raise
\* because of a record that fails validation, each such record is dropped
\* alone, and the records written are exactly the records of the batch that
\* pass validation.
C15_InvalidSkipped ==
    fn = "store_cost_data" =>
        /\ ret.raised = ""
        /\ cost_data_table = {r \in Range(args) : ~FailsValidation(r)}

\* ---------------------------------------------------------------------------
\* Aggregation of records one of which has no timestamp
\* ---------------------------------------------------------------------------

InsertAt(s, p, e) == SubSeq(s, 1, p - 1) \o <<e>> \o SubSeq(s, p, Len(s))

\* the records handed to the aggregations: a daily series of EC2 with or
\* without a series of S3, and among them, first or last, at most one record
\* that has no timestamp field
AggregationInputs ==
    LET Valid(n, odd, kind) == Series("EC2", n, 100, odd, n, FALSE) \o OtherService(kind)
        Malformed(service) ==
            [CostRecord(service, 1, 0, 40) EXCEPT !.timestamp = NoTimestamp]
    IN  {[cost_data |-> Valid(n, odd, kind), sensitivity |-> sensitivity] :
            n \in 1..MaxDays, odd \in {100, 300}, kind \in {"none", "spiky"},
            sensitivity \in {"medium", "high"}}
        \cup
        {[cost_data |-> InsertAt(Valid(n, odd, kind),
                                 IF first THEN 1 ELSE Len(Valid(n, odd, kind)) + 1,
                                 Malformed(service)),
          sensitivity |-> sensitivity] :
            n \in 1..MaxDays, odd \in {100, 300}, kind \in {"none", "spiky"},
            sensitivity \in {"medium", "high"}, first \in BOOLEAN,
            service \in {"EC2", "RDS"}}

InitAggregation ==
    /\ InitAlertManager
    /\ InitNoData
    /\ fn = ""
    /\ args \in AggregationInputs
    /\ ret = None

CallAnalyzeDailyCosts ==
    /\ fn = ""
    /\ fn' = "analyze_daily_costs"
    /\ ret' = analyze_daily_costs(args.cost_data)
    /\ UNCHANGED <<args, amVars, dpVars>>

AggregationNext == CallAnalyzeDailyCosts \/ CallDetectServiceAnomalies

AggregationSpec == InitAggregation /\ [][AggregationNext]_vars

\* the records that have a timestamp
WithTimestamp(cost_data) == SelectSeq(cost_data, LAMBDA r : r.timestamp # NoTimestamp)

Deviation(daily, d) == Cardinality(DOMAIN daily) * daily[d] - SumFn(daily, DOMAIN daily)

SquaredDeviations(daily) ==
    SumFn([d \in DOMAIN daily |-> Deviation(daily, d) * Deviation(daily, d)], DOMAIN daily)

ZExceeds(daily, p, q) ==
    LET dev == Deviation(daily, Max(DOMAIN daily))
    IN  q * q * dev * dev * (Cardinality(DOMAIN daily) - 1) > p * p * SquaredDeviations(daily)

\* the rule as stated: at least 7 days, s > 0, z above the threshold of the
\* sensitivity
ShouldEmit(daily, sensitivity) ==
    /\ Cardinality(DOMAIN daily) >= 7
    /\ SquaredDeviations(daily) > 0
    /\ CASE sensitivity = "low" -> ZExceeds(daily, 3, 1)
         [] sensitivity = "high" -> ZExceeds(daily, 2, 1)
         [] OTHER -> ZExceeds(daily, 5, 2)

\* C17: detect_service_anomalies raises no error and emits an anomaly for a
\* service iff the service has at least 7 days of data, the standard
\* deviation of its daily costs is positive and the z-score of its latest
\* day is strictly above the sensitivity threshold (low 3.0, medium 2.5,
\* high 2.0, otherwise 2.5); the anomaly is the only one of the service, is
\* for the greatest date, is critical when z > 3, warning when 2 < z <= 3,
\* info when z <= 2, and is a spike when the latest cost is above the mean
\* and a drop otherwise.
C17_EmissionRule ==
    fn = "detect_service_anomalies" =>
        /\ ret.raised = ""
        /\ \A service \in ServicesOf(args.cost_data) :
              LET daily == DailyCostsOf(args.cost_data, service)
                  found == SelectSeq(ret.value, LAMBDA a : a.service = service)
              IN  IF ShouldEmit(daily, args.sensitivity)
                  THEN /\ Len(found) = 1
                       /\ found[1].date = Max(DOMAIN daily)
                       /\ found[1].severity =
                             IF ZExceeds(daily, 3, 1) THEN "critical"
                             ELSE IF ZExceeds(daily, 2, 1) THEN "warning"
                             ELSE "info"
                       /\ found[1].description =
                             IF Deviation(daily, Max(DOMAIN daily)) > 0 THEN "spike"
                             ELSE "drop"
                  ELSE found = <<>>

\* a call that emits a warning for a service of exactly 7 days and nothing
\* for a service of fewer than 7 days
C17_Witness ==
    /\ fn = "detect_service_anomalies"
    /\ ret.raised = ""
    /\ \E i \in 1..Len(ret.value) :
          /\ ret.value[i].severity = "warning"
          /\ Cardinality(DOMAIN DailyCostsOf(args.cost_data, ret.value[i].service)) = 7
    /\ \E service \in ServicesOf(args.cost_data) :
          /\ Cardinality(DOMAIN DailyCostsOf(args.cost_data, service)) < 7
          /\ \A i \in 1..Len(ret.value) : ret.value[i].service # service

\* ---------------------------------------------------------------------------
\* Channel routing
\* ---------------------------------------------------------------------------

\* candidates of every alert type the evaluators produce, and one of a type
\* no evaluator produces
RoutingKinds ==
    { [alert_type |-> type, severity |-> "warning", service |-> service,
       region |-> "All", current_cost |-> 150, threshold |-> 100] :
        type \in {"threshold_breach", "service_threshold_breach", "anomaly_detection",
                  "budget_exceeded", "budget_warning", "cost_forecast"},
        service \in {"EC2", "S3"} }

\* process_alerts on one or two candidates
RoutingStart ==
    /\ run[1].pc = "idle"
    /\ \E ks \in SeqsUpTo(RoutingKinds, MaxCandidates) :
          /\ ks # <<>>
          /\ created + Len(ks) <= MaxCreated
          /\ created' = created + Len(ks)
          /\ run' = [run EXCEPT ![1] =
                [IdleRun EXCEPT
                    !.alerts = [j \in 1..Len(ks) |-> create_alert(ks[j], now, created + j)],
                    !.pc = "dedup"]]
    /\ UNCHANGED <<now, alerts_table, published, faulted, fnVars, dpVars>>

RoutingNext ==
    \/ RoutingStart
    \/ IsDuplicateAlert(1)
    \/ StoreAlert(1)
    \/ Publish(1)
    \/ MarkSent(1)
    \/ Return(1)

RoutingSpec == Init /\ [][RoutingNext]_vars

\* the channel the claim names for an alert type
ChannelOf(alert_type) ==
    CASE alert_type = "threshold_breach" -> "ALERTS_TOPIC_ARN"
      [] alert_type = "service_threshold_breach" -> "ALERTS_TOPIC_ARN"
      [] alert_type = "anomaly_detection" -> "ANOMALIES_TOPIC_ARN"
      [] alert_type = "budget_exceeded" -> "BUDGET_TOPIC_ARN"
      [] alert_type = "budget_warning" -> "BUDGET_TOPIC_ARN"
      [] OTHER -> "ALERTS_TOPIC_ARN"

\* C18: every notification is published to the topic of its alert type
\* (threshold_breach and service_threshold_breach to the alerts topic,
\* anomaly_detection to the anomalies topic, budget_exceeded and
\* budget_warning to the budget topic, any other type to the alerts topic),
\* whatever the service of the alert, and no alert is published to two topics.
C18_ChannelRouting ==
    /\ \A n \in published : n.topic = ChannelOf(n.key[1])
    /\ \A n, m \in published :
          n.alert_id = m.alert_id /\ n.timestamp = m.timestamp => n.topic = m.topic

\* a budget_warning, an anomaly and an alert of an unknown type have been
\* published
C18_Witness ==
    /\ \E n \in published : n.key[1] = "budget_warning" /\ n.topic = "BUDGET_TOPIC_ARN"
    /\ \E n \in published : n.key[1] = "anomaly_detection"
    /\ \E n \in published : n.key[1] = "cost_forecast" /\ n.topic = "ALERTS_TOPIC_ARN"

\* ---------------------------------------------------------------------------
\* Escalation
\* ---------------------------------------------------------------------------

MaxLevel == 4

PyBool(b) == [t |-> "bool", v |-> b]

\* escalation_config: the entry of a level
EscalationConfig(level) ==
    CASE level = 1 -> [delay_minutes |-> 30, recipients |-> <<"manager@company.com">>,
                       channels |-> <<"email">>]
      [] level = 2 -> [delay_minutes |-> 60, recipients |-> <<"director@company.com">>,
                       channels |-> <<"email", "sms">>]
      [] level = 3 -> [delay_minutes |-> 120, recipients |-> <<"cto@company.com">>,
                       channels |-> <<"email", "sms", "phone">>]

\* escalate_alert(alert, escalation_level) called at time t: False when the
\* level has no configuration, otherwise the copy of the alert with the
\* three keys the code sets
escalate_alert(alert, escalation_level, t) ==
    IF escalation_level \notin {1, 2, 3} THEN PyBool(FALSE)
    ELSE [escalation_level |-> escalation_level,
          escalated_at |-> t,
          escalation_recipients |-> EscalationConfig(escalation_level).recipients]
            @@ alert

\* escalate_alert on a persisted alert
EscalateAlert ==
    /\ \E alert \in alerts_table, escalation_level \in 0..MaxLevel :
          /\ args' = [alert |-> alert, escalation_level |-> escalation_level]
          /\ ret' = escalate_alert(alert, escalation_level, now)
    /\ fn' = "escalate_alert"
    /\ UNCHANGED <<amVars, dpVars>>

EscalationNext ==
    \/ StartRun(1)
    \/ IsDuplicateAlert(1)
    \/ StoreAlert(1)
    \/ Publish(1)
    \/ MarkSent(1)
    \/ Return(1)
    \/ EscalateAlert

EscalationSpec == Init /\ [][EscalationNext]_vars

\* what escalate_alert returned: for a level in 1..3 the alert with every
\* field unchanged, extended with the level and the recipients, channels and
\* delay of the level; for any other level the failure value
EscalationResult ==
    fn = "escalate_alert" =>
        IF args.escalation_level \in {1, 2, 3}
        THEN /\ \A f \in DOMAIN args.alert : f \in DOMAIN ret /\ ret[f] = args.alert[f]
             /\ ret.escalation_level = args.escalation_level
             /\ ret.escalation_recipients = EscalationConfig(args.escalation_level).recipients
             /\ "escalation_channels" \in DOMAIN ret
             /\ ret.escalation_channels = EscalationConfig(args.escalation_level).channels
             /\ "escalation_delay_minutes" \in DOMAIN ret
             /\ ret.escalation_delay_minutes =
                    EscalationConfig(args.escalation_level).delay_minutes
        ELSE ret = PyBool(FALSE)

\* a call of escalate_alert leaves the persisted alerts, the published
\* notifications and the run in progress as they are
EscalationFrame ==
    <<fn, args, ret>>' # <<fn, args, ret>> =>
        UNCHANGED <<alerts_table, published, run, created>>

\* C19: escalate_alert with a level in {1, 2, 3} returns a copy of the alert
\* extended with the escalation level and the recipients, channels and delay
\* of that level, with any other level it returns a failure value; in both
\* cases every persisted alert and the published notifications are unchanged,
\* so that deduplication of later candidates is not affected.
C19_EscalationAdvisory == [](EscalationResult) /\ [][EscalationFrame]_vars

\* ---------------------------------------------------------------------------
\* Alerting configuration and its defaults
\* ---------------------------------------------------------------------------

\* a configuration: the items of cost_thresholds.daily in order, the 'daily'
\* entry of each configured service, and anomaly_detection (None when the
\* key is absent)
AlertingConfig(daily, service_thresholds, anomaly_detection) ==
    [daily |-> daily, service_thresholds |-> service_thresholds,
     anomaly_detection |-> anomaly_detection]

\* what config_table.get_item gave: an exception, no item, or the item
GetItemRaised == [raised |-> "ClientError", Item |-> None]

GetItemReturned(item) == [raised |-> "", Item |-> item]

get_alerting_config_empty_fallback(response) ==
    IF response.raised # ""
    THEN AlertingConfig(<<>>, <<>>, None)
    ELSE IF response.Item = None
    THEN AlertingConfig(<< <<"warning", PyInt(100)>>, <<"critical", PyInt(200)>> >>,
                        [s \in {"EC2", "S3"} |-> IF s = "EC2" THEN PyInt(50) ELSE PyInt(20)],
                        [enabled |-> TRUE, sensitivity |-> "medium"])
    ELSE response.Item

\* get_alerting_config
get_alerting_config(response) ==
    IF response.raised # ""
    THEN AlertingConfig(<< <<"warning", PyInt(100)>>, <<"critical", PyInt(200)>> >>,
                        <<>>, None)
    ELSE IF response.Item = None
    THEN AlertingConfig(<< <<"warning", PyInt(100)>>, <<"critical", PyInt(200)>> >>,
                        [s \in {"EC2", "S3"} |-> IF s = "EC2" THEN PyInt(50) ELSE PyInt(20)],
                        [enabled |-> TRUE, sensitivity |-> "medium"])
    ELSE response.Item

\* config.get('anomaly_detection', {}) with the defaults of its two reads
AnomalyConfigOf(config) ==
    IF config.anomaly_detection = None THEN [enabled |-> TRUE, sensitivity |-> "medium"]
    ELSE config.anomaly_detection

\* one alerting run: the outcome of reading the thresholds item, the records
\* of yesterday and the records of the last two weeks; the budgets item is
\* absent
ConfigInputs ==
    [response : {GetItemRaised, GetItemReturned(None)} \cup
                {GetItemReturned(AlertingConfig(<< <<"warning", PyDecimal(120)>> >>,
                                                [s \in {"EC2"} |-> PyDecimal(50)],
                                                [enabled |-> e, sensitivity |-> "high"])) :
                    e \in BOOLEAN},
     daily_costs : {<<>>} \cup
                   {<<[service_name |-> s, cost_amount |-> PyDecimal(c)]>> :
                       s \in {"EC2", "S3"}, c \in {30, 100, 101, 200, 201}},
     cost_data : {<<>>, Series("EC2", MinDays + 2, 100, 300, MinDays + 2, FALSE),
                        Series("EC2", MinDays + 2, 100, 100, MinDays + 2, FALSE)}]

InitConfig ==
    /\ InitAlertManager
    /\ InitNoData
    /\ fn = "lambda_handler"
    /\ args \in ConfigInputs
    /\ ret = <<>>

\* lambda_handler up to process_alerts: the candidates of the three checks
ConfigStart ==
    /\ run[1].pc = "idle"
    /\ ret = <<>>
    /\ LET config == get_alerting_config(args.response)
           ks == check_threshold_alerts(config.daily, config.service_thresholds,
                                        args.daily_costs)
                   \o check_cost_anomalies(AnomalyConfigOf(config), args.cost_data)
                   \o check_budget_alerts(None, <<>>)
       IN  /\ created' = created + Len(ks)
           /\ run' = [run EXCEPT ![1] =
                 [IdleRun EXCEPT
                     !.alerts = [j \in 1..Len(ks) |-> create_alert(ks[j], now, created + j)],
                     !.pc = IF ks = <<>> THEN "done" ELSE "dedup"]]
    /\ UNCHANGED <<now, alerts_table, published, faulted, fnVars, dpVars>>

ConfigNext ==
    \/ ConfigStart
    \/ IsDuplicateAlert(1)
    \/ StoreAlert(1)
    \/ Publish(1)
    \/ MarkSent(1)
    \/ RerunReturn

ConfigSpec == InitConfig /\ [][ConfigNext]_vars

\* the candidates of the finished run that are threshold_breach alerts of the
\* given severity and limit
OverallBreach(severity, limit) ==
    {c \in ret[1].candidates :
        /\ c.alert_type = "threshold_breach"
        /\ c.severity = severity
        /\ c.threshold = limit}

\* C20: when the thresholds item is absent or cannot be read, the
\* configuration get_alerting_config returns has the daily limits warning
\* 100 and critical 200, and the alerting run completes with statusCode 200
\* and raises its overall alerts by those limits: a warning iff yesterday's
\* total is above 100, a critical iff it is above 200; and when
\* anomaly_detection.enabled is false the run has no anomaly alert, whatever
\* the cost data.
C20_ConfigFallback ==
    LET fallback == args.response.raised # "" \/ args.response.Item = None
        total == SumSeq([i \in 1..Len(args.daily_costs) |-> args.daily_costs[i].cost_amount.v])
    IN  /\ fallback =>
              get_alerting_config(args.response).daily =
                  << <<"warning", PyInt(100)>>, <<"critical", PyInt(200)>> >>
        /\ ret # <<>> /\ fallback =>
              /\ ret[1].statusCode = 200
              /\ (total > 100) = (OverallBreach("warning", 100) # {})
              /\ (total > 200) = (OverallBreach("critical", 200) # {})
        /\ ret # <<>> /\ ~fallback /\ ~args.response.Item.anomaly_detection.enabled =>
              /\ \A c \in ret[1].candidates : c.alert_type # "anomaly_detection"
              /\ check_cost_anomalies(args.response.Item.anomaly_detection,
                                      args.cost_data) = <<>>

\* the thresholds item could not be read, yesterday cost 201, and the run
\* returned 200 with a warning and a critical overall alert
C20_Witness ==
    /\ args.response = GetItemRaised
    /\ ret # <<>>
    /\ ret[1].statusCode = 200
    /\ OverallBreach("warning", 100) # {}
    /\ OverallBreach("critical", 200) # {}
    /\ ret[1].total_alerts = 2

\* ---------------------------------------------------------------------------
\* Alert creation: amounts with a fractional part
\* ---------------------------------------------------------------------------

round_2_truncating(x) == x \div 10

\* Decimal(str(round(x, 2))): an amount x in thousandths gives an amount in
\* hundredths; round() takes a tie to the even hundredth (the ties among the
\* amounts of the model, .125 and .375, are exact in binary)
round_2(x) == RoundDiv(x, 10)

\* create_alert with amounts in thousandths, followed by process_alerts on
\* the alert; create_alert proper carries the whole amounts of the other
\* specifications, which round(x, 2) leaves as they are
CallCreateAlert ==
    /\ run[1].pc = "idle"
    /\ created < MaxCreated
    /\ \E k \in [alert_type : {"threshold_breach"}, severity : {"warning", "critical"},
                  service : {"EC2", "S3"}, region : {"All"},
                  current_cost : {150000, 150124, 150125, 150375},
                  threshold : {100000, 99996}] :
          /\ args' = k
          /\ run' = [run EXCEPT ![1] =
                [IdleRun EXCEPT
                    !.alerts = <<[create_alert(k, now, created + 1) EXCEPT
                                    !.current_cost = round_2(k.current_cost),
                                    !.threshold = round_2(k.threshold)]>>,
                    !.pc = "dedup"]]
    /\ created' = created + 1
    /\ fn' = "create_alert"
    /\ UNCHANGED <<now, alerts_table, published, faulted, ret, dpVars>>

CreateAlertSpec ==
    Init /\ [][CallCreateAlert \/ IsDuplicateAlert(1) \/ StoreAlert(1) \/ Publish(1)
                   \/ MarkSent(1) \/ Return(1)]_vars

\* h hundredths is x thousandths rounded to 2 decimal places
RoundedTo2(h, x) ==
    /\ 10 * h - x <= 5
    /\ x - 10 * h <= 5
    /\ x % 10 = 0 => 10 * h = x

\* the alert as create_alert must build it from the arguments of the call
AsCreated(alert) ==
    /\ alert.status = "active"
    /\ alert.acknowledged = FALSE
    /\ alert.resolved = FALSE
    /\ alert.notification_sent = FALSE
    /\ alert.notification_channels = <<>>
    /\ alert.alert_type = args.alert_type
    /\ alert.severity = args.severity
    /\ alert.service = args.service
    /\ alert.region = args.region
    /\ RoundedTo2(alert.current_cost, args.current_cost)
    /\ RoundedTo2(alert.threshold, args.threshold)

\* C21: every alert create_alert returns, and every alert process_alerts
\* persists, at the time it is persisted, is active, not acknowledged, not
\* resolved, not notified, without channels, has the given type, severity,
\* service and region, and has current_cost and threshold equal to the
\* inputs rounded to 2 decimal places (unchanged when they have at most 2
\* decimals).
C21_CreationInvariant ==
    [](run[1].pc = "dedup" => AsCreated(Current(1)))
    /\ [][\A r \in alerts_table' :
            (\A q \in alerts_table : <<q.alert_id, q.timestamp>> # <<r.alert_id, r.timestamp>>)
                => AsCreated(r)]_vars

\* an alert of cost 150.125 and threshold 99.996 is persisted as 150.12 and
\* 100.00
C21_Witness ==
    /\ fn = "create_alert"
    /\ args.current_cost = 150125
    /\ args.threshold = 99996
    /\ \E r \in alerts_table :
          r.current_cost = 15012 /\ r.threshold = 10000 /\ r.status = "active"

\* ---------------------------------------------------------------------------
\* The repository reads of the alerting pass
\* ---------------------------------------------------------------------------

AnomalyDays == 14

\* get_daily_costs(date): one scan call, filtered by
\* Attr('timestamp').begins_with(date); what it may return, one result for
\* each page the call can receive
get_daily_costs(table, date) ==
    {SetToSeq({r \in page : DateOf(r) = date}) : page \in ScanFirstPage(table)}

\* get_cost_data_range(start_date, end_date): scans until no LastEvaluatedKey
\* is returned; between() compares strings, so a timestamp with a time part
\* on the end date is above the end
get_cost_data_range(table, start_date, end_date) ==
    SetToSeq({r \in table :
                /\ DateOf(r) >= start_date
                /\ \/ DateOf(r) < end_date
                   \/ DateOf(r) = end_date /\ r.timestamp[2] = 0})

\* the repository before an alerting run on day args.today: records of
\* yesterday and of today, the thresholds and budgets items absent
InitPass ==
    /\ InitAlertManager
    /\ cost_data_table \in SUBSET {CostRecord("EC2", 2, 0, 30), CostRecord("RDS", 2, 0, 250),
                                   CostRecord("S3", 2, 0, 30), CostRecord("EC2", 3, 0, 250),
                                   CostRecord("S3", 3, 0, 10)}
    /\ cost_analysis_table = {}
    /\ recommendations_table = {}
    /\ fn = "lambda_handler"
    /\ args = [today |-> 3, daily_costs |-> <<>>, cost_data |-> <<>>]
    /\ ret = <<>>

\* lambda_handler up to process_alerts, reading the repository
PassStart ==
    /\ run[1].pc = "idle"
    /\ ret = <<>>
    /\ \E daily_costs \in get_daily_costs(cost_data_table, args.today - 1) :
         LET config == get_alerting_config(GetItemReturned(None))
             cost_data == get_cost_data_range(cost_data_table, args.today - AnomalyDays,
                                             args.today)
             ks == check_threshold_alerts(config.daily, config.service_thresholds, daily_costs)
                     \o check_cost_anomalies(AnomalyConfigOf(config), cost_data)
                     \o check_budget_alerts(None, <<>>)
         IN  /\ args' = [args EXCEPT !.daily_costs = daily_costs, !.cost_data = cost_data]
             /\ created' = created + Len(ks)
             /\ run' = [run EXCEPT ![1] =
                   [IdleRun EXCEPT
                       !.alerts = [j \in 1..Len(ks) |-> create_alert(ks[j], now, created + j)],
                       !.pc = IF ks = <<>> THEN "done" ELSE "dedup"]]
    /\ UNCHANGED <<now, alerts_table, published, faulted, fn, ret, dpVars>>

PassSpec ==
    InitPass /\ [][PassStart \/ IsDuplicateAlert(1) \/ StoreAlert(1) \/ Publish(1)
                       \/ MarkSent(1) \/ RerunReturn]_vars

\* C22: the daily total the Threshold Evaluator compares with the limits
\* includes the records dated the current day: after a failure-free alerting
\* run over a repository in which a record dated today costs more than the
\* critical daily limit (200 by default), a persisted alert of severity
\* critical exists.
C22_TodayEvaluated ==
    /\ ret # <<>>
    /\ ~faulted
    /\ \E r \in cost_data_table : DateOf(r) = args.today /\ r.cost_amount.v > 200
    => \E a \in alerts_table : a.severity = "critical"

----------------------------------------------------------------------------
\* percentage changes against a prior period

\* analysis_utils.generate_cost_insights: the insights as <<type, severity>>.
\* daily_costs is a dict, so `list(daily_costs.values())` is in the order the
\* dates are first seen in cost_data; the means are of 7 values each, so
\*   change > k   iff   100 * (recent - previous) > k * previous
\* for the sums of the two windows (previous > 0; the reverse below 0)
generate_cost_insights(cost_data) ==
    LET daily_costs == DailyTotals(cost_data)
        dates == FirstSeen([i \in 1..Len(cost_data) |-> DateOf(cost_data[i])])
        n == Len(dates)
        costs == [i \in 1..n |-> daily_costs[dates[i]]]
        recent == SumSeq(SubSeq(costs, n - 6, n))
        previous == SumSeq(SubSeq(costs, n - 13, n - 7))
        ChangeAbove(k) ==
            IF previous > 0 THEN 100 * (recent - previous) > k * previous
            ELSE 100 * (recent - previous) < k * previous
        trend == IF n < 14 THEN <<>>
                 ELSE IF ChangeAbove(20) THEN <<[type |-> "cost_increase", severity |-> "high"]>>
                 ELSE IF ChangeAbove(10) THEN <<[type |-> "cost_increase", severity |-> "medium"]>>
                 ELSE <<>>
        total_cost == SumCosts(cost_data).v
        top_service_cost ==
            Max({ServiceTotal(cost_data, service) : service \in ServicesOf(cost_data)})
        concentrated ==
            IF total_cost > 0 THEN 10 * top_service_cost > 7 * total_cost
            ELSE 10 * top_service_cost < 7 * total_cost
    IN  IF LacksTimestamp(cost_data) THEN Raised("KeyError")
        ELSE IF n >= 14 /\ previous = 0 THEN Raised("ZeroDivisionError")
        ELSE IF cost_data # <<>> /\ total_cost = 0 THEN Raised("ZeroDivisionError")
        ELSE IF cost_data # <<>> /\ concentrated
        THEN Returned(Append(trend, [type |-> "cost_concentration", severity |-> "medium"]))
        ELSE Returned(trend)

\* generate_weekly_summary, run on day today: the summary of the 7 days that
\* end yesterday, in hundredths, or a message when they hold no record
generate_weekly_summary(table, today) ==
    LET end_date == today - 1
        start_date == end_date - 6
        Week(first) == SetToSeq(UNION {{r \in table : DateOf(r) = first + i} : i \in 0..6})
        weekly_data == Week(start_date)
        total_cost == SumCosts(weekly_data).v
        prev_week_cost == SumCosts(Week(start_date - 7)).v
        week_change == IF prev_week_cost > 0
                       THEN RoundDiv(10000 * (total_cost - prev_week_cost), prev_week_cost)
                       ELSE 0
    IN  IF weekly_data = <<>> THEN [message |-> "No data available"]
        ELSE [week_start |-> start_date,
              week_end |-> end_date,
              total_cost |-> 100 * total_cost,
              average_daily_cost |-> RoundDiv(100 * total_cost, 7),
              daily_breakdown |-> [d \in DOMAIN DailyTotals(weekly_data) |->
                                     100 * DailyTotals(weekly_data)[d]],
              week_over_week_change |-> week_change,
              record_count |-> Len(weekly_data)]

\* lambda_handler, report_type 'weekly_summary' (the notification of the
\* summary is not represented)
LambdaHandlerWeeklySummary ==
    /\ fn = "store_cost_data"
    /\ \E today \in Todays(cost_data_table) :
         LET summary == generate_weekly_summary(cost_data_table, today)
         IN  /\ args' = [report_type |-> "weekly_summary", today |-> today]
             /\ ret' = [statusCode |-> 200, body |-> summary]
             /\ cost_analysis_table' =
                  IF "message" \in DOMAIN summary THEN cost_analysis_table
                  ELSE store_analysis_results(cost_analysis_table, "weekly_summary",
                                              today, summary)
    /\ fn' = "lambda_handler"
    /\ UNCHANGED <<cost_data_table, recommendations_table, amVars>>

CallGenerateCostInsights ==
    /\ fn = "store_cost_data"
    /\ fn' = "generate_cost_insights"
    /\ ret' = generate_cost_insights(SetToSeq(cost_data_table))
    /\ UNCHANGED <<args, dpVars, amVars>>

PercentChangeSpec ==
    InitProcessing /\ [][\/ StoreCostData
                         \/ CallAnalyzeCostTrends
                         \/ CallGenerateCostInsights
                         \/ LambdaHandlerWeeklySummary]_vars

\* the daily totals of the repository in date order
StoredCosts ==
    LET daily == DailyTotals(SetToSeq(cost_data_table))
        dates == Ascending(DOMAIN daily)
    IN  [i \in 1..Len(dates) |-> daily[dates[i]]]

\* the prior window: the 7 values before the last 7 when at least 14 values
\* exist, all values before the last 7 otherwise
PriorWindow(costs) ==
    IF Len(costs) >= 14 THEN SubSeq(costs, Len(costs) - 13, Len(costs) - 7)
    ELSE SubSeq(costs, 1, Len(costs) - 7)

\* (recent mean - prior mean) / prior mean * 100, in hundredths
PercentChange(costs) ==
    LET prior == PriorWindow(costs)
        recent == SumSeq(SubSeq(costs, Len(costs) - 6, Len(costs)))
    IN  RoundDiv(10000 * (recent * Len(prior) - 7 * SumSeq(prior)), 7 * SumSeq(prior))

NonNegativeCosts == \A r \in cost_data_table : r.cost_amount.v >= 0

\* C23: for non-negative daily costs, with at least 7 daily values
\* analyze_cost_trends raises no error and its percent_change_week is 0 when
\* the prior window sums to 0 and (recent mean - prior mean) / prior mean *
\* 100 otherwise; with at least 14 daily values generate_cost_insights raises
\* no error, and reports no cost increase when the prior window sums to 0;
\* and the weekly summary's week_over_week_change is 0 when the prior week's
\* total is 0
C23_GuardedPercentChange ==
    NonNegativeCosts =>
        /\ (fn = "analyze_cost_trends" /\ Len(StoredCosts) >= 7) =>
              /\ ret.raised = ""
              /\ ret.value.percent_change_week =
                    IF SumSeq(PriorWindow(StoredCosts)) = 0 THEN 0
                    ELSE PercentChange(StoredCosts)
        /\ (fn = "generate_cost_insights" /\ Len(StoredCosts) >= 14) =>
              /\ ret.raised = ""
              /\ SumSeq(PriorWindow(StoredCosts)) = 0 =>
                    \A i \in 1..Len(ret.value) : ret.value[i].type # "cost_increase"
        /\ (fn = "lambda_handler" /\ args.report_type = "weekly_summary"
                /\ "week_over_week_change" \in DOMAIN ret.body
                /\ \A r \in cost_data_table :
                      DateOf(r) \in (args.today - 14)..(args.today - 8) => r.cost_amount.v = 0) =>
              ret.body.week_over_week_change = 0

\* C24: every repository read of the alerting pass takes the matching items
\* of every page into account: the run evaluates all records dated yesterday
\* and all records of the last AnomalyDays days, and a dedup lookup that did
\* not fail reports a duplicate whenever the table holds a matching active
\* alert of the last hour
C24_AllPagesRead ==
    /\ [][PassStart =>
            /\ Range(args'.daily_costs)
                  = {r \in cost_data_table : DateOf(r) = args.today - 1}
            /\ Range(args'.cost_data)
                  = {r \in cost_data_table :
                        /\ DateOf(r) >= args.today - AnomalyDays
                        /\ r.timestamp[1] < args.today \/ r.timestamp = <<args.today, 0>>}]_vars
    /\ [][(/\ run[1].pc = "dedup"
           /\ faulted' = faulted
           /\ \E r \in alerts_table : DuplicateFilter(r, Current(1), now))
          => run'[1].pc # "store"]_vars

----------------------------------------------------------------------------
\* severity and the dedup key

OverallBreachRow(r) ==
    /\ r.alert_type = "threshold_breach"
    /\ r.service = "Overall"
    /\ r.region = "All"

\* the first run is over, it produced a warning and a critical overall
\* candidate, and no call has failed so far
FirstRunBothSeverities ==
    /\ Len(ret) = 1
    /\ run[1].pc = "idle"
    /\ ~faulted
    /\ {k.severity : k \in {c \in Range(ThresholdCandidates) : OverallBreachRow(c)}}
          = {"warning", "critical"}

\* C25: a critical threshold_breach candidate for (Overall, All) whose dedup
\* lookup did not fail is discarded, nothing being stored or published,
\* whenever the table holds an active threshold_breach alert for (Overall,
\* All) of any severity created within the last hour; and after a first
\* failure-free run that produced a warning and a critical candidate, exactly
\* one of the two is persisted and published: the first in the
\* configuration's order
C25_SeverityNotInKey ==
    /\ [][(/\ run[1].pc = "dedup"
           /\ ~faulted'
           /\ OverallBreachRow(Current(1))
           /\ Current(1).severity = "critical"
           /\ \E r \in alerts_table :
                 /\ OverallBreachRow(r)
                 /\ r.status = "active"
                 /\ r.timestamp[1] > now - Hour)
          => /\ run'[1].pc \notin {"store", "publish"}
             /\ alerts_table' = alerts_table
             /\ published' = published]_vars
    /\ [](FirstRunBothSeverities =>
            LET first == SelectSeq(ThresholdCandidates, OverallBreachRow)[1]
            IN  /\ {r.severity : r \in {q \in alerts_table : OverallBreachRow(q)}}
                      = {first.severity}
                /\ Cardinality({q \in alerts_table : OverallBreachRow(q)}) = 1
                /\ Cardinality({p \in published :
                                  p.key = <<"threshold_breach", "Overall", "All">>}) = 1)

----------------------------------------------------------------------------
\* The Recommendation Engine run again, an operator acting on the stored
\* recommendations in between.  ret is the sequence of the results of the
\* calls so far: the list a run returned, or the row an operator wrote.

batch_put_item_if_absent(table, items) ==
    table \cup {rec \in Range(items) :
                  \A r \in table : <<r.resource_id, r.recommendation_type>>
                                      # <<rec.resource_id, rec.recommendation_type>>}

\* `with recommendations_table.batch_writer() as batch: batch.put_item(Item=rec)`:
\* an unconditional put under the key (resource_id, recommendation_type)
batch_put_item(table, items) ==
    {r \in table :
        \A rec \in Range(items) : <<r.resource_id, r.recommendation_type>>
                                     # <<rec.resource_id, rec.recommendation_type>>}
        \cup Range(items)

RunRecommendationEngine ==
    /\ Len(SelectSeq(ret, LAMBDA e : e.call = "run")) < MaxRuns
    /\ \E k \in 0..2, base \in {100, 150, 600}, anonymous \in BOOLEAN :
         LET cost_data == ResourceRecords(k, base, 0, FALSE, anonymous)
             recommendations == generate_optimization_recommendations(cost_data)
         IN  /\ args' = cost_data
             /\ ret' = Append(ret, [call |-> "run", value |-> recommendations])
             /\ recommendations_table' = batch_put_item(recommendations_table, recommendations)
    /\ fn' = "generate_optimization_recommendations"
    /\ UNCHANGED <<amVars, cost_data_table, cost_analysis_table>>

\* an operator marks an open recommendation implemented or dismissed
OperatorUpdate ==
    /\ fn = "generate_optimization_recommendations"
    /\ \E r \in recommendations_table : \E status \in {"implemented", "dismissed"} :
         LET row == [r EXCEPT !.status = status, !.implemented = (status = "implemented")]
         IN  /\ r.status = "open"
             /\ recommendations_table' = (recommendations_table \ {r}) \cup {row}
             /\ ret' = Append(ret, [call |-> "update", value |-> row])
    /\ fn' = "update_item"
    /\ UNCHANGED <<args, amVars, cost_data_table, cost_analysis_table>>

InitRecommendationRerun ==
    /\ InitAlertManager
    /\ InitNoData
    /\ fn = ""
    /\ args = <<>>
    /\ ret = <<>>

RecommendationRerunSpec ==
    InitRecommendationRerun /\ [][RunRecommendationEngine \/ OperatorUpdate]_vars

RowsOf(resource_id) == {r \in recommendations_table : r.resource_id = resource_id}

\* C26: after every run of the Recommendation Engine, each resource it
\* recommended has exactly one stored row, of type cost_review with status
\* open and implemented false, whatever an operator wrote before; and no
\* resource ever has more than one row
C26_RerunOverwrites ==
    /\ \A r1, r2 \in recommendations_table : r1.resource_id = r2.resource_id => r1 = r2
    /\ fn = "generate_optimization_recommendations" =>
          \A rec \in Range(ret[Len(ret)].value) :
              /\ Cardinality(RowsOf(rec.resource_id)) = 1
              /\ \A r \in RowsOf(rec.resource_id) :
                    /\ r.recommendation_type = "cost_review"
                    /\ r.status = "open"
                    /\ ~r.implemented

\* run, operator marks a recommendation implemented, run again with the
\* resource still qualifying: the row is open again
C26_Witness ==
    /\ Len(ret) = 3
    /\ ret[2].call = "update"
    /\ ret[2].value.status = "implemented"
    /\ ret[3].call = "run"
    /\ \E rec \in Range(ret[3].value) :
          /\ rec.resource_id = ret[2].value.resource_id
          /\ \A r \in RowsOf(rec.resource_id) : r.status = "open" /\ ~r.implemented

----------------------------------------------------------------------------
\* short series: the two detectors on the series of 7 to MaxShort daily
\* costs of one service, each cost one of ShortCosts.  mean, stdev and the
\* latest day's z-score depend on the latest cost and on how often each cost
\* occurs on the earlier days, not on the order of the earlier days: the
\* series below list the earlier days in ascending cost.

MaxShort == 11

ShortCosts == <<0, 1, 9, 100>>

InitShortSeries ==
    /\ InitAlertManager
    /\ InitNoData
    /\ fn = ""
    /\ ret = None
    /\ \E n \in MinDays..MaxShort, a, b, c \in 0..(MaxShort - 1), latest \in 1..4 :
          /\ a + b + c <= n - 1
          /\ \E sensitivity \in Sensitivities :
                args = [cost_data |->
                          [i \in 1..n |->
                             CostRecord("EC2", i, 0,
                                ShortCosts[IF i = n THEN latest
                                           ELSE IF i <= a THEN 1
                                           ELSE IF i <= a + b THEN 2
                                           ELSE IF i <= a + b + c THEN 3 ELSE 4])],
                        sensitivity |-> sensitivity]

ShortSeriesSpec == InitShortSeries /\ [][AnomalyNext]_vars

\* |latest - mean| / s <= (n - 1) / sqrt(n), in integers: with D = |n * latest
\* - S| and V = n * (sum of squares) - S^2, z^2 = D^2 * (n - 1) / (n * V)
WithinShortBound(daily) ==
    LET n == Cardinality(DOMAIN daily)
        D == Abs(n * daily[Max(DOMAIN daily)] - Total(daily))
    IN  D * D <= (n - 1) * Variance(daily)

\* C27: the z-score of the latest day never exceeds (n - 1) / sqrt(n); and
\* detect_service_anomalies returns no anomaly at sensitivity medium for a
\* service with 7 or 8 daily points, nor at sensitivity low for a service
\* with 7 to 10 daily points
C27_ShortSeriesBound ==
    fn = "detect_service_anomalies" =>
        \A service \in ServicesOf(args.cost_data) :
            LET daily == DailyCostsOf(args.cost_data, service)
                n == Cardinality(DOMAIN daily)
            IN  /\ WithinShortBound(daily)
                /\ (args.sensitivity = "medium" /\ n \in {7, 8}) => NoAnomalyFor(service)
                /\ (args.sensitivity = "low" /\ n \in 7..10) => NoAnomalyFor(service)

\* 8 daily points whose latest day attains the bound (z = 7 / sqrt(8), about
\* 2.47), at sensitivity medium: no anomaly
C27_Witness ==
    /\ fn = "detect_service_anomalies"
    /\ args.sensitivity = "medium"
    /\ LET daily == DailyCostsOf(args.cost_data, "EC2")
           D == Abs(8 * daily[8] - Total(daily))
       IN  /\ DOMAIN daily = 1..8
           /\ Variance(daily) > 0
           /\ D * D = 7 * Variance(daily)
    /\ NoAnomalyFor("EC2")

\* C28: every anomaly detect_service_anomalies returns has severity warning
\* or critical, never info, and every anomaly detect_cost_anomalies returns
\* has severity medium or high, never low, for every sensitivity value
C28_LowestTierUnreachable ==
    /\ (fn = "detect_service_anomalies" /\ ret.raised = "") =>
          \A i \in 1..Len(ret.value) : ret.value[i].severity \in {"warning", "critical"}
    /\ (fn = "detect_cost_anomalies" /\ ret.raised = "") =>
          \A a \in ret.value : a.severity \in {"medium", "high"}

\* an anomaly at sensitivity high whose z-score is above 2 and not above 3
C28_Witness ==
    /\ fn = "detect_service_anomalies"
    /\ args.sensitivity = "high"
    /\ ret.raised = ""
    /\ \E i \in 1..Len(ret.value) :
          /\ ret.value[i].severity = "warning"
          /\ ~ZScoreAbove(DailyCostsOf(args.cost_data, "EC2"),
                          ret.value[i].current_cost.v, 5, 2)

----------------------------------------------------------------------------
\* the dedup check when its query fails

\* C29: when the scan of is_duplicate_alert fails (the first failed call of
\* the behaviour, in a step of the run that is at its dedup check), the same
\* candidate goes on to be stored, whatever the table holds
C29_DedupFailsOpen ==
    [][(run[1].pc = "dedup" /\ run'[1] # run[1] /\ ~faulted /\ faulted')
          => /\ run'[1].pc = "store"
             /\ run'[1].idx = run[1].idx]_vars

\* two persisted, notified, active alerts of one key inside one hour, in a
\* table of two rows: the second was stored while the table held the first
\* alone, so its lookup read the whole table and can only have failed
C29_Witness ==
    /\ faulted
    /\ Cardinality(alerts_table) = 2
    /\ \E r1, r2 \in alerts_table :
          /\ r1 # r2
          /\ InWindow(r1, r2)
          /\ r1.notification_sent
          /\ r2.notification_sent

----------------------------------------------------------------------------
\* the dedup window

\* C30: in sequential, failure-free runs a candidate whose key has no active
\* alert created within the last hour (none at all, or only acknowledged,
\* resolved or older ones) goes on to be stored as a new active alert; and
\* at most one active alert per key has its creation time within any
\* one-hour window
C30_ActiveLastHourOnly ==
    /\ [][(/\ run[1].pc = "dedup"
           /\ run'[1] # run[1]
           /\ ~faulted'
           /\ \A r \in alerts_table : ~DuplicateFilter(r, Current(1), now))
          => /\ run'[1].pc = "store"
             /\ run'[1].idx = run[1].idx
             /\ Current(1).status = "active"]_vars
    /\ [](~faulted => \A r1, r2 \in alerts_table : InWindow(r1, r2) => r1 = r2)

====
